---- MODULE Spec2Model ----
(***************************************************************************)
(* A model of pythonsourceserver: the SourceServer endpoint                *)
(* (sourceserver.py), the MasterServer enumerator (masterserver.py) and    *)
(* the receive retry loop the two share.                                   *)
(*                                                                         *)
(* Nine specifications share the module:                                   *)
(*   RecvSpec   - one call of _response, poll by poll, with a clock;       *)
(*   RequestSpec - the calls of _request on one socket, each one sendall   *)
(*                and the polls of its _response;                          *)
(*   Spec       - one SourceServer endpoint, one action per public         *)
(*                operation, the datagrams the server sends being queued   *)
(*                on the socket by the environment;                        *)
(*   SplitSpec  - a connected SourceServer whose server answers the info   *)
(*                query with the fragments of a three-part split response; *)
(*   InfoSpec   - a connected SourceServer whose server answers the info   *)
(*                query with one info response, any EDF byte, whole or cut;*)
(*   CompSpec   - the same with a split response that may be compressed;   *)
(*   PlayersSpec - a connected SourceServer whose server answers           *)
(*                getPlayers, The Ship and CS:GO included;                 *)
(*   MasterSpec - one run of the MasterServer.query generator;             *)
(*   FilterSpec - one call of MasterServer._validateAndBuildFilters.       *)
(* Each specification leaves the variables of the others unchanged.        *)
(***************************************************************************)
EXTENDS Integers, Sequences, FiniteSets, TLC

VARIABLES
    \* ---- RecvSpec: SourceServer._response / MasterServer._response
    rwho,        \* "source" or "master": whose _response is running
    retries,     \* the local retries
    startTime,   \* the local startTime, in ticks
    now,         \* time.time(), in ticks
    rstate,      \* "polling", "returned" or "raised"
    rpending,    \* the datagram waiting on the socket, or NoDatagram
    rgot,        \* what the call returned, or NoDatagram
    expiries,    \* history: the deadline expiries of this call, in order
    lastPoll,    \* history: the last failed poll
    \* ---- Spec: one SourceServer
    phase,       \* "new" (before _connect of __init__), "live", "raised"
    isClosed,    \* self.isClosed
    closeCalled, \* history: close() has been called on this object
    inbox,       \* the socket's receive queue
    lastOp,      \* the operation that ran last, "none" once its result is dropped
    outcome,     \* how the last operation ended
    trace,       \* the wire log of the last operation
    reasm,       \* the split reassemblies the last operation completed
    \* ---- MasterSpec: one MasterServer.query generator
    mpc,         \* "first", "sleeping", "yielded", "done", "raised"
    ipList,      \* the local ipList
    queriesSent, \* the local queriesSent, 0 before it is set
    mRequests,   \* history: every request sent, in order
    mReceived,   \* history: every record tokenised from a response, in order
    mYielded,    \* history: the batches yielded, concatenated
    mLastYield,  \* history: the batch yielded last
    mError,      \* the class of the exception the generator raised, "none" if none
    mTimeouts,   \* history: how many times the first request timed out
    mSlept,      \* history: the seconds spent in time.sleep
    \* ---- FilterSpec: one call of MasterServer._validateAndBuildFilters
    filters,     \* the argument filters, a dict as the sequence of its items
    built,       \* the string returned or the exception raised, NotBuilt before the call
    \* ---- RequestSpec: the calls of _request on one socket
    rsent,       \* history: the datagrams handed to socket.sendall
    rcalls,      \* history: the calls of _request made while the endpoint was open
    rpendingFor  \* history: the number of the request the last datagram on the socket answers

recvVars == <<rwho, retries, startTime, now, rstate, rpending, rgot, expiries, lastPoll>>
srvVars == <<phase, isClosed, closeCalled, inbox, lastOp, outcome, trace, reasm>>
masterVars == <<mpc, ipList, queriesSent, mRequests, mReceived, mYielded, mLastYield, mError, mTimeouts, mSlept>>
filterVars == <<filters, built>>
requestVars == <<rsent, rcalls, rpendingFor>>
vars == <<recvVars, srvVars, masterVars, filterVars, requestVars>>
notRecvVars == <<srvVars, masterVars, filterVars, requestVars>>
notSrvVars == <<recvVars, masterVars, filterVars, requestVars>>
notMasterVars == <<recvVars, srvVars, filterVars, requestVars>>
notFilterVars == <<recvVars, srvVars, masterVars, requestVars>>

(***************************************************************************)
(* Program constants.                                                      *)
(***************************************************************************)
MAX_RETRIES == 5
TIME_UNTIL_RETRY == 3
RATE_LIMIT == 300
QUERY_CAP == 10

(***************************************************************************)
(* Bounds of the model.                                                    *)
(***************************************************************************)
\* Clock resolution of RecvSpec: ticks per second.
TicksPerSecond == 2
\* How many ticks past a deadline the clock may run before the next poll.
MaxOvershoot == 2

(***************************************************************************)
(* Bytes, Python indexing and slicing.                                     *)
(***************************************************************************)
None == -1
NoDatagram == <<None>>

\* b[i] of Python, i >= 0: present iff i < len(b).
At(b, i) == b[i + 1]
\* b[lo:hi] of Python for 0 <= lo <= hi.
Slice(b, lo, hi) == SubSeq(b, lo + 1, IF hi < Len(b) THEN hi ELSE Len(b))
\* b[lo:] of Python.
SliceFrom(b, lo) == SubSeq(b, lo + 1, Len(b))
\* b[:-1] of Python.
AllButLast(s) == SubSeq(s, 1, Len(s) - 1)

(***************************************************************************)
(* PeekableStream (peekablestream.py): a buffer and the number of bytes    *)
(* already taken from its iterator by moveNext.                            *)
(***************************************************************************)
PeekableStream(b) == [buf |-> b, pos |-> 0]

\* The field next: the byte moveNext will return, None at the end.
PeekNext(chars) == IF chars.pos < Len(chars.buf) THEN chars.buf[chars.pos + 1] ELSE None

\* moveNext: returns next (None at the end, no error) and refills.
MoveNext(chars) ==
    [ret |-> PeekNext(chars),
     chars |-> [chars EXCEPT !.pos = IF @ < Len(chars.buf) THEN @ + 1 ELSE @]]

(***************************************************************************)
(* Results.  A result is a record: k is "ok" or the class of the exception *)
(* raised, v the value returned, msg the exception's message.  A pure      *)
(* scanner's result also carries chars, the stream afterwards; a result of *)
(* the transport carries c, the context afterwards.                        *)
(***************************************************************************)
ScanOk(v, chars) == [k |-> "ok", v |-> v, chars |-> chars, msg |-> ""]
ScanErr(kind, msg, chars) == [k |-> kind, v |-> None, chars |-> chars, msg |-> msg]

\* Sequencing of two statements: an exception raised by the first leaves the
\* function, otherwise the second runs on the first's result.
Then(r, F(_)) == IF r.k # "ok" THEN r ELSE F(r)

\* str(ret, encoding="utf-8") accepts exactly the well-formed UTF-8 sequences.
RECURSIVE Utf8Valid(_)
Utf8Valid(b) ==
    LET Cont(i) == i <= Len(b) /\ b[i] >= 128 /\ b[i] <= 191
        Second(lo, hi) == 2 <= Len(b) /\ b[2] >= lo /\ b[2] <= hi
    IN IF b = <<>> THEN TRUE
       ELSE IF b[1] < 128 THEN Utf8Valid(Tail(b))
       ELSE IF b[1] >= 194 /\ b[1] <= 223 THEN Cont(2) /\ Utf8Valid(SubSeq(b, 3, Len(b)))
       ELSE IF b[1] = 224 THEN Second(160, 191) /\ Cont(3) /\ Utf8Valid(SubSeq(b, 4, Len(b)))
       ELSE IF b[1] = 237 THEN Second(128, 159) /\ Cont(3) /\ Utf8Valid(SubSeq(b, 4, Len(b)))
       ELSE IF b[1] >= 225 /\ b[1] <= 239 THEN Cont(2) /\ Cont(3) /\ Utf8Valid(SubSeq(b, 4, Len(b)))
       ELSE IF b[1] = 240 THEN Second(144, 191) /\ Cont(3) /\ Cont(4) /\ Utf8Valid(SubSeq(b, 5, Len(b)))
       ELSE IF b[1] = 244 THEN Second(128, 143) /\ Cont(3) /\ Cont(4) /\ Utf8Valid(SubSeq(b, 5, Len(b)))
       ELSE IF b[1] >= 241 /\ b[1] <= 243 THEN Cont(2) /\ Cont(3) /\ Cont(4) /\ Utf8Valid(SubSeq(b, 5, Len(b)))
       ELSE FALSE

\* _scanString: bytes up to the NUL, which is consumed; a str is modelled by
\* its UTF-8 bytes.
RECURSIVE ScanStringLoop(_, _)
ScanStringLoop(chars, ret) ==
    IF PeekNext(chars) # 0
    THEN IF PeekNext(chars) = None
         THEN ScanErr("SourceError", "A string ran off the end of the response", chars)
         ELSE ScanStringLoop(MoveNext(chars).chars, Append(ret, PeekNext(chars)))
    ELSE IF Utf8Valid(ret)
         THEN ScanOk(ret, MoveNext(chars).chars)
         ELSE ScanErr("UnicodeDecodeError", "invalid utf-8", chars)

ScanString(chars) == ScanStringLoop(chars, <<>>)

\* The for loop of _scanInt and _scanFloat: n times byteString += b"%c" % moveNext(),
\* a TypeError when moveNext returns None.
RECURSIVE TakeBytes(_, _, _)
TakeBytes(chars, n, acc) ==
    IF n = 0 THEN ScanOk(acc, chars)
    ELSE IF PeekNext(chars) = None
    THEN ScanErr("TypeError", "%c requires an integer in range(256) or a single byte", chars)
    ELSE TakeBytes(MoveNext(chars).chars, n - 1, Append(acc, PeekNext(chars)))

Reverse(s) == [i \in 1..Len(s) |-> s[Len(s) + 1 - i]]

\* Unsigned little-endian value of at most three bytes.
RECURSIVE Unsigned(_)
Unsigned(le) == IF le = <<>> THEN 0 ELSE le[1] + 256 * Unsigned(Tail(le))

\* int.from_bytes(byteString, "big" | "little", signed=signed).  One to four bytes
\* give an integer (an unsigned 32-bit value past 2^31 - 1 is not representable and
\* is never asked for by the code); eight bytes give the limbs
\* <<bits 0..23, bits 24..47, bits 48..63>> of the unsigned value.
FromBytes(byteString, bigEndian, signed) ==
    LET le == IF bigEndian THEN Reverse(byteString) ELSE byteString
        n == Len(le)
    IN IF n = 0 THEN 0
       ELSE IF n = 8
       THEN <<Unsigned(SubSeq(le, 1, 3)), Unsigned(SubSeq(le, 4, 6)), Unsigned(SubSeq(le, 7, 8))>>
       ELSE IF n = 4
       THEN IF signed /\ le[4] >= 128
            THEN (Unsigned(SubSeq(le, 1, 3)) + (le[4] - 128) * 16777216 - 2147483647) - 1
            ELSE Unsigned(SubSeq(le, 1, 3)) + le[4] * 16777216
       ELSE IF signed /\ le[n] >= 128
            THEN Unsigned(le) - (IF n = 1 THEN 256 ELSE IF n = 2 THEN 65536 ELSE 16777216)
            ELSE Unsigned(le)

\* _scanInt
ScanInt(chars, bits, signed, bigEndian) ==
    IF bits % 8 # 0 THEN ScanErr("ValueError", "bits is not a multiple of 8", chars)
    ELSE Then(TakeBytes(chars, bits \div 8, <<>>),
              LAMBDA t : ScanOk(FromBytes(t.v, bigEndian, signed), t.chars))

\* _scanFloat: struct.unpack("<f", byteString)[0]; a float is modelled by the four
\* bytes of its IEEE-754 encoding, which determine it.
ScanFloat(chars, bits) ==
    IF bits % 8 # 0 THEN ScanErr("ValueError", "bits is not a multiple of 8", chars)
    ELSE Then(TakeBytes(chars, bits \div 8, <<>>),
              LAMBDA t : IF Len(t.v) # 4
                         THEN ScanErr("struct.error", "unpack requires a buffer of 4 bytes", t.chars)
                         ELSE ScanOk([f32 |-> t.v], t.chars))

(***************************************************************************)
(* _tokeniseInfo.                                                          *)
(***************************************************************************)
\* "The Ship" and "Counter-Strike: Global Offensive"
TheShip == <<84, 104, 101, 32, 83, 104, 105, 112>>
CSGO == <<67, 111, 117, 110, 116, 101, 114, 45, 83, 116, 114, 105, 107, 101, 58, 32, 71, 108, 111, 98, 97, 108, 32, 79, 102, 102, 101, 110, 115, 105, 118, 101>>

\* The keys of the dict tokens in insertion order, and the type each starts with.
TokenOrder ==
    <<"protocol", "name", "map", "folder", "game", "id", "players", "max_players", "bots",
      "server_type", "environment", "visibility", "VAC", "mode", "witnesses", "duration",
      "version", "EDF">>

InitialTokens ==
    [protocol |-> "byte", name |-> "str", map |-> "str", folder |-> "str", game |-> "str",
     id |-> "short", players |-> "byte", max_players |-> "byte", bots |-> "byte",
     server_type |-> "byte", environment |-> "byte", visibility |-> "byte", VAC |-> "byte",
     mode |-> "", witnesses |-> "", duration |-> "", version |-> "str", EDF |-> "byte"]

\* tokens["EDF"] & mask, for a mask of one bit.
BitSet(x, mask) == (x \div mask) % 2 = 1

\* The if/elif on typ in the loop of _tokeniseInfo; a key of any other type keeps
\* what the dict holds for it.
ScanToken(typ, chars) ==
    IF typ = "byte" THEN ScanOk(PeekNext(chars), MoveNext(chars).chars)
    ELSE IF typ = "str" THEN ScanString(chars)
    ELSE IF typ = "short" THEN ScanInt(chars, 16, TRUE, FALSE)
    ELSE ScanOk(typ, chars)

\* tokens[name] = value, and the update that makes the three keys of The Ship
\* bytes to be read.
WithToken(tokens, name, value) ==
    IF name = "game" /\ value = TheShip
    THEN [tokens EXCEPT ![name] = value, !["mode"] = "byte", !["witnesses"] = "byte", !["duration"] = "byte"]
    ELSE [tokens EXCEPT ![name] = value]

\* The loop "for name, typ in tokens.items()": the dict holds a key's type until
\* the key's turn and its value afterwards.
RECURSIVE TokeniseLoop(_, _, _)
TokeniseLoop(i, chars, tokens) ==
    IF i > Len(TokenOrder) THEN ScanOk(tokens, chars)
    ELSE Then(ScanToken(tokens[TokenOrder[i]], chars),
              LAMBDA r : TokeniseLoop(i + 1, r.chars, WithToken(tokens, TokenOrder[i], r.v)))

\* tokens.update({key: value}) for a key the dict may or may not hold.
DictUpdate(tokens, key, value) ==
    [n \in (DOMAIN tokens) \cup {key} |-> IF n = key THEN value ELSE tokens[n]]

\* The optional fields, one step per EDF bit, in the order of the if statements.
EdfPort(st) ==
    IF ~BitSet(st.v["EDF"], 128) THEN st
    ELSE Then(ScanInt(st.chars, 16, TRUE, FALSE),
              LAMBDA r : ScanOk(DictUpdate(st.v, "port", r.v), r.chars))

EdfSteamId(st) ==
    IF ~BitSet(st.v["EDF"], 16) THEN st
    ELSE Then(ScanInt(st.chars, 64, FALSE, FALSE),
              LAMBDA r : ScanOk(DictUpdate(st.v, "steam_id", r.v), r.chars))

EdfSourceTV(st) ==
    IF ~BitSet(st.v["EDF"], 64) THEN st
    ELSE Then(ScanInt(st.chars, 16, TRUE, FALSE),
              LAMBDA r : Then(ScanString(r.chars),
                              LAMBDA n : ScanOk(DictUpdate(DictUpdate(st.v, "sourceTV_port", r.v),
                                                           "sourceTV_name", n.v), n.chars)))

\* The keywords read on the bit 0x08, which announces nothing.
EdfKeywordsOnWrongBit(st) ==
    IF ~BitSet(st.v["EDF"], 8) THEN st
    ELSE Then(ScanString(st.chars),
              LAMBDA r : ScanOk(DictUpdate(st.v, "keywords", r.v), r.chars))

EdfKeywords(st) ==
    IF ~BitSet(st.v["EDF"], 32) THEN st
    ELSE Then(ScanString(st.chars),
              LAMBDA r : ScanOk(DictUpdate(st.v, "keywords", r.v), r.chars))

\* 16777215 & game_id is the low limb of the 64-bit value.
EdfGameId(st) ==
    IF ~BitSet(st.v["EDF"], 1) THEN st
    ELSE Then(ScanInt(st.chars, 64, FALSE, FALSE),
              LAMBDA r : ScanOk(DictUpdate(DictUpdate(st.v, "game_id", r.v), "id", r.v[1]), r.chars))

\* The block "if tokens["EDF"] is not None".
OptionalFields(fixed) ==
    IF fixed.v["EDF"] = None THEN fixed
    ELSE Then(Then(Then(Then(EdfPort(fixed), EdfSteamId), EdfSourceTV), EdfKeywords), EdfGameId)

\* The block "if tokens["game"] != "The Ship"": the three keys are deleted.
DropShipKeys(st) ==
    IF st.v["game"] # TheShip
    THEN ScanOk([n \in (DOMAIN st.v) \ {"mode", "witnesses", "duration"} |-> st.v[n]], st.chars)
    ELSE st

TokeniseInfo(inf) ==
    Then(Then(TokeniseLoop(1, PeekableStream(inf), InitialTokens), OptionalFields), DropShipKeys)

(***************************************************************************)
(* The endpoint's transport and framer.  A call threads a context c:       *)
(* closed is self.isClosed, inbox the socket's receive queue, trace the    *)
(* wire log, depth the number of _processSplitPacket calls in progress,    *)
(* reasm the log of completed reassemblies.                                *)
(***************************************************************************)
Ok(c, v) == [k |-> "ok", v |-> v, c |-> c, msg |-> ""]
Err(c, kind, msg) == [k |-> kind, v |-> None, c |-> c, msg |-> msg]

\* The result r of a pure function, as the result of a statement run in context c.
Lift(c, r) == IF r.k = "ok" THEN Ok(c, r.v) ELSE Err(c, r.k, r.msg)

\* A place in the receive queue where nothing arrives within the retry budget:
\* the datagrams behind it reach the socket only after _response has raised.
Gap == NoDatagram

Event(c, ev, data) == [c EXCEPT !.trace = Append(@, [ev |-> ev, data |-> data, depth |-> c.depth])]

\* _response, as RecvSpec shows it: the datagram at the head of the queue, or
\* SourceError once the retries are used up.
Response(c) ==
    IF c.inbox = <<>>
    THEN Err(Event(c, "timeout", <<>>), "SourceError", "Connection failed after max retries")
    ELSE IF Head(c.inbox) = Gap
    THEN Err(Event([c EXCEPT !.inbox = Tail(@)], "timeout", <<>>), "SourceError", "Connection failed after max retries")
    ELSE Ok(Event([c EXCEPT !.inbox = Tail(@)], "recv", Head(c.inbox)), Head(c.inbox))

\* The guard of _request.
RequestRefusedNever(c) == FALSE

RequestRefused(c) == c.closed

\* _request
Request(c, request) ==
    IF RequestRefused(c)
    THEN Err(c, "SourceError", "Request attempt made on closed connection")
    ELSE Response(Event(c, "send", request))

\* _packetSplit
PacketSplit(packet) ==
    Then(ScanInt(PeekableStream(Slice(packet, 0, 4)), 32, TRUE, FALSE),
         LAMBDA header : IF header.v = -1 THEN ScanOk(FALSE, header.chars)
                         ELSE IF header.v = -2 THEN ScanOk(TRUE, header.chars)
                         ELSE ScanErr("SourceError", "Invalid packet header", header.chars))

\* An empty slot of the list packets.
NoPacket == <<None>>

\* packets[packet[9]] = packet
PlaceInArrivalOrder(packets, packet) ==
    IF Len(packet) < 10 \/ At(packet, 9) >= Len(packets)
    THEN [k |-> "IndexError", v |-> packets, msg |-> "index out of range"]
    ELSE LET free == { i \in 1..Len(packets) : packets[i] = NoPacket }
         IN [k |-> "ok", msg |-> "",
             v |-> IF free = {} THEN packets
                   ELSE [packets EXCEPT ![CHOOSE i \in free : \A j \in free : i <= j] = packet]]

Place(packets, packet) ==
    IF Len(packet) < 10 \/ At(packet, 9) >= Len(packets)
    THEN [k |-> "IndexError", v |-> packets, msg |-> "index out of range"]
    ELSE [k |-> "ok", v |-> [packets EXCEPT ![At(packet, 9) + 1] = packet], msg |-> ""]

\* The loop "for _ in range(totalPackets - 1)"; arrivals is history, the
\* fragments in the order they were received.
RECURSIVE CollectFragments(_, _, _, _, _)
CollectFragments(c, packetID, packets, n, arrivals) ==
    IF n <= 0 THEN Ok(c, [packets |-> packets, arrivals |-> arrivals])
    ELSE Then(Response(c), LAMBDA r :
         Then(Lift(r.c, PacketSplit(r.v)), LAMBDA split :
         IF ~split.v
         THEN Err(r.c, "SourceError", "Expected split packet from server, got singular")
         ELSE Then(Lift(r.c, ScanInt(PeekableStream(Slice(r.v, 4, 8)), 32, TRUE, FALSE)), LAMBDA id :
              IF id.v # packetID
              THEN Err(r.c, "SourceError", "Expected split packet with same ID, got different")
              ELSE Then(Lift(r.c, Place(packets, r.v)), LAMBDA placed :
                   CollectFragments(r.c, packetID, placed.v, n - 1, Append(arrivals, r.v))))))

\* The loop "for packet in packets: payload += packet[(12 if sizeAttrPresent else 10):]";
\* subscripting a slot that is still None is a TypeError.
RECURSIVE JoinPayloads(_, _)
JoinPayloads(packets, sizeAttrPresent) ==
    IF packets = <<>> THEN [k |-> "ok", v |-> <<>>, msg |-> ""]
    ELSE IF Head(packets) = NoPacket
    THEN [k |-> "TypeError", v |-> <<>>, msg |-> "'NoneType' object is not subscriptable"]
    ELSE Then(JoinPayloads(Tail(packets), sizeAttrPresent), LAMBDA rest :
              [k |-> "ok", msg |-> "",
               v |-> SliceFrom(Head(packets), IF sizeAttrPresent THEN 12 ELSE 10) \o rest.v])

\* bz2.decompress, an external codec.  The model's stand-in accepts the empty
\* input (as bz2 does) and the streams "BZh" + data, which it decompresses to data.
Bz2Decompress(data) ==
    IF data = <<>> THEN [k |-> "ok", v |-> <<>>, msg |-> ""]
    ELSE IF Len(data) >= 3 /\ SubSeq(data, 1, 3) = <<66, 90, 104>>
    THEN [k |-> "ok", v |-> SliceFrom(data, 3), msg |-> ""]
    ELSE [k |-> "OSError", v |-> <<>>, msg |-> "Invalid data stream"]

\* The A2S_INFO request of _getInfo.
InfoRequest == <<255, 255, 255, 255, 84, 83, 111, 117, 114, 99, 101, 32, 69, 110, 103, 105, 110, 101, 32, 81, 117, 101, 114, 121, 0>>

RECURSIVE GetInfo(_)
RECURSIVE ProcessSplitPacket(_, _)

\* sizeAttrPresent = not (self.info["protocol"] == 7 and self.info["id"] in (215, 17550, 17700, 240)):
\* each self.info is a call of _getInfo, the second made only when the first
\* operand of "and" is true.
SizeAttrPresent(c) ==
    Then(GetInfo(c), LAMBDA first :
         IF first.v["protocol"] # 7 THEN Ok(first.c, TRUE)
         ELSE Then(GetInfo(first.c), LAMBDA second :
                   Ok(second.c, ~(second.v["id"] \in {215, 17550, 17700, 240}))))

\* The return of _processSplitPacket; the reassembly is logged.
Reassembled(c, packetID, arrivals, sizeAttrPresent, payload) ==
    Ok([c EXCEPT !.depth = @ - 1,
                 !.reasm = Append(@, [arrivals |-> arrivals, sizeAttrPresent |-> sizeAttrPresent,
                                      packetID |-> packetID, payload |-> payload])],
       payload)

\* The tail of _processSplitPacket without the block "if compressed".
FinishSplitNeverCompressed(c, packetID, packets, arrivals, sizeAttrPresent) ==
    Then(Lift(c, JoinPayloads(packets, sizeAttrPresent)), LAMBDA joined :
         Reassembled(c, packetID, arrivals, sizeAttrPresent, joined.v))

\* The tail of _processSplitPacket, from "payload = bytes()".
FinishSplit(c, packetID, packets, arrivals, sizeAttrPresent) ==
    Then(Lift(c, JoinPayloads(packets, sizeAttrPresent)), LAMBDA joined :
         IF packetID >= 0 THEN Reassembled(c, packetID, arrivals, sizeAttrPresent, joined.v)
         ELSE Then(Lift(c, ScanInt(PeekableStream(joined.v), 32, TRUE, FALSE)), LAMBDA compSize :
              Then(Lift(c, Bz2Decompress(SliceFrom(joined.v, 64))), LAMBDA plain :
                   IF Len(plain.v) # compSize.v
                   THEN Err(c, "SourceError", "Decompressed payload size does not match packet attribute")
                   ELSE Reassembled(c, packetID, arrivals, sizeAttrPresent, plain.v))))

\* _processSplitPacket, from "totalPackets = splitPacket[8]".
SplitBody(c, splitPacket, packetID) ==
    IF Len(splitPacket) < 9 THEN Err(c, "IndexError", "index out of range")
    ELSE Then(SizeAttrPresent(c), LAMBDA size :
         Then(Lift(size.c, Place([i \in 1..At(splitPacket, 8) |-> NoPacket], splitPacket)), LAMBDA first :
         Then(CollectFragments(size.c, packetID, first.v, At(splitPacket, 8) - 1, <<splitPacket>>), LAMBDA rest :
              FinishSplit(rest.c, packetID, rest.v.packets, rest.v.arrivals, size.v))))

\* _processSplitPacket
ProcessSplitPacket(c, splitPacket) ==
    Then(Lift([c EXCEPT !.depth = @ + 1], PacketSplit(splitPacket)), LAMBDA split :
         IF ~split.v THEN Err(split.c, "SourceError", "Attempted to process singular packet as split")
         ELSE Then(Lift(split.c, ScanInt(PeekableStream(Slice(splitPacket, 4, 8)), 32, TRUE, FALSE)),
                   LAMBDA packetID : SplitBody(split.c, splitPacket, packetID.v)))

\* "if self._packetSplit(response): response = self._processSplitPacket(response)"
Framed(response) ==
    Then(response, LAMBDA r :
         Then(Lift(r.c, PacketSplit(r.v)), LAMBDA split :
              IF split.v THEN ProcessSplitPacket(r.c, r.v) ELSE r))

\* _getInfo
GetInfo(c) ==
    Then(Framed(Request(c, InfoRequest)), LAMBDA response :
         IF Len(response.v) < 23 \/ At(response.v, 4) # 73
         THEN Err(response.c, "SourceError", "Info response header invalid")
         ELSE Lift(response.c, TokeniseInfo(SliceFrom(response.v, 5))))

(***************************************************************************)
(* The decoders of the players and rules responses.                        *)
(***************************************************************************)
\* b[lo:hi] of Python for any integers lo and hi: a negative bound counts from
\* the end, and both are clamped to 0..len(b).
PySlice(b, lo, hi) ==
    LET Norm(x) == IF x < 0 THEN (IF x + Len(b) < 0 THEN 0 ELSE x + Len(b))
                   ELSE IF x > Len(b) THEN Len(b) ELSE x
    IN SubSeq(b, Norm(lo) + 1, Norm(hi))

\* The four appends "index, name, score, duration" of one player record.
ScanPlayer(chars) ==
    Then(ScanString(MoveNext(chars).chars), LAMBDA name :
    Then(ScanInt(name.chars, 32, TRUE, FALSE), LAMBDA score :
    Then(ScanFloat(score.chars, 32), LAMBDA duration :
         ScanOk(<<PeekNext(chars), name.v, score.v, duration.v>>, duration.chars))))

\* The branch of _tokenisePlayers for every game but The Ship.
RECURSIVE PlayersUntilEnd(_, _)
PlayersUntilEnd(chars, acc) ==
    IF PeekNext(chars) = None THEN ScanOk(acc, chars)
    ELSE Then(ScanPlayer(chars), LAMBDA p : PlayersUntilEnd(p.chars, Append(acc, p.v)))

\* The deaths and money of player i of numPlrs, read from the tail of plrs.
ShipExtras(plrs, numPlrs, i) ==
    LET index == Len(plrs) - (numPlrs - i) * 8
    IN <<FromBytes(PySlice(plrs, index, index + 4), FALSE, TRUE),
         FromBytes(PySlice(plrs, index + 4, index + 8), FALSE, TRUE)>>

\* The branch of _tokenisePlayers for The Ship: "for i in range(numPlrs)".
RECURSIVE ShipPlayers(_, _, _, _, _)
ShipPlayers(plrs, chars, numPlrs, i, acc) ==
    IF i >= numPlrs THEN ScanOk(acc, chars)
    ELSE Then(ScanPlayer(chars), LAMBDA p :
              ShipPlayers(plrs, p.chars, numPlrs, i + 1, Append(acc, p.v \o ShipExtras(plrs, numPlrs, i))))

\* _tokenisePlayers, run to its end by tuple(); game is self.info["game"].
TokenisePlayers(plrs, numPlrs, game) ==
    IF game # TheShip
    THEN PlayersUntilEnd(PeekableStream(plrs), <<>>)
    ELSE ShipPlayers(plrs, PeekableStream(plrs), numPlrs, 0, <<>>)

\* rulesDict.update({name: value}): the last value of a name wins.  The dict is
\* modelled by its items in insertion order.
RulesUpdate(rulesDict, name, value) ==
    IF \E i \in 1..Len(rulesDict) : rulesDict[i][1] = name
    THEN [i \in 1..Len(rulesDict) |-> IF rulesDict[i][1] = name THEN <<name, value>> ELSE rulesDict[i]]
    ELSE Append(rulesDict, <<name, value>>)

RECURSIVE RulesLoop(_, _, _)
RulesLoop(chars, n, rulesDict) ==
    IF n <= 0 THEN ScanOk(rulesDict, chars)
    ELSE Then(ScanString(chars), LAMBDA name :
         Then(ScanString(name.chars), LAMBDA value :
              RulesLoop(value.chars, n - 1, RulesUpdate(rulesDict, name.v, value.v))))

\* _tokeniseRules
TokeniseRules(rules) ==
    Then(ScanInt(PeekableStream(rules), 16, TRUE, FALSE),
         LAMBDA count : RulesLoop(count.chars, count.v, <<>>))

(***************************************************************************)
(* getPlayers and getRules.                                                *)
(***************************************************************************)
\* The challenge requests and the head of the data requests.
PlayersChallengeRequest == <<255, 255, 255, 255, 85, 255, 255, 255, 255>>
RulesChallengeRequest == <<255, 255, 255, 255, 86, 255, 255, 255, 255>>
PlayersRequestHead == <<255, 255, 255, 255, 85>>
RulesRequestHead == <<255, 255, 255, 255, 86>>

\* "len(challengeResponse) != 9 or challengeResponse[4] != 0x41"
ChallengeInvalidLengthOnly(challengeResponse) == Len(challengeResponse) # 9

ChallengeInvalid(challengeResponse) ==
    Len(challengeResponse) # 9 \/ At(challengeResponse, 4) # 65

\* challengeResponse[5:], appended to the head of the data request.
ChallengeOf(challengeResponse) == SliceFrom(challengeResponse, 5)

\* The two requests of the handshake and the framing of the data response.
Handshake(c, challengeRequest, requestHead) ==
    Then(Request(c, challengeRequest), LAMBDA challengeResponse :
         IF ChallengeInvalid(challengeResponse.v)
         THEN Err(challengeResponse.c, "SourceError", "Challenge response header invalid")
         ELSE Framed(Request(challengeResponse.c, requestHead \o ChallengeOf(challengeResponse.v))))

\* getPlayers, from "count = response[5]": tuple() runs _tokenisePlayers, which
\* reads self.info before its first record.
PlayerList(c, response) ==
    Then(GetInfo(c), LAMBDA info :
    Then(Lift(info.c, TokenisePlayers(SliceFrom(response, 6), At(response, 5), info.v["game"])), LAMBDA players :
         Ok(info.c, [count |-> At(response, 5), players |-> players.v])))

\* getPlayers, from the check of the players response.
PlayersDecoded(response) ==
    IF Len(response.v) < 6 \/ At(response.v, 4) # 68
    THEN Err(response.c, "SourceError", "Players response header invalid")
    ELSE Then(GetInfo(response.c), LAMBDA info :
         IF info.v["game"] = CSGO /\ Len(response.v) = 9
         THEN Then(Lift(info.c, ScanFloat(PeekableStream(SliceFrom(response.v, 6)), 32)), LAMBDA uptime :
                   Ok(info.c, [max_players |-> At(response.v, 5), uptime |-> uptime.v]))
         ELSE PlayerList(info.c, response.v))

\* getPlayers without its first read of self.info.
GetPlayersWithoutInfo(c) ==
    Then(Handshake(c, PlayersChallengeRequest, PlayersRequestHead), PlayersDecoded)

\* getPlayers
GetPlayers(c) ==
    Then(GetInfo(c), LAMBDA warn :
         Then(Handshake(warn.c, PlayersChallengeRequest, PlayersRequestHead), PlayersDecoded))

\* getRules, from the check of the rules response.
RulesDecoded(response) ==
    IF Len(response.v) < 7 \/ At(response.v, 4) # 69
    THEN Err(response.c, "SourceError", "Rules response header invalid")
    ELSE Lift(response.c, TokeniseRules(SliceFrom(response.v, 5)))

\* getRules
GetRules(c) ==
    Then(GetInfo(c), LAMBDA info :
         IF info.v["game"] = CSGO THEN Ok(info.c, None)
         ELSE Then(Handshake(info.c, RulesChallengeRequest, RulesRequestHead), RulesDecoded))

(***************************************************************************)
(* The datagrams the server of Spec sends.                                 *)
(***************************************************************************)
\* Two info responses: protocol 7 with id 240 (fragments without the size
\* field) and protocol 17 with id 440 (fragments with it).
InfoOld == <<255, 255, 255, 255, 73, 7, 83, 0, 109, 0, 102, 0, 71, 0, 240, 0, 5, 16, 0, 108, 119, 0, 1, 49, 0, 0>>
InfoNew == <<255, 255, 255, 255, 73, 17, 83, 0, 109, 0, 102, 0, 71, 0, 184, 1, 5, 16, 0, 108, 119, 0, 1, 49, 0, 0>>
\* InfoNew as a split response of two fragments, packet id 1, size field present.
SplitMessage == InfoNew
Fragment0 == <<254, 255, 255, 255, 1, 0, 0, 0, 2, 0, 224, 4, 255, 255, 255, 255, 73, 17, 83, 0, 109, 0, 102, 0, 71>>
Fragment1 == <<254, 255, 255, 255, 1, 0, 0, 0, 2, 1, 224, 4, 0, 184, 1, 5, 16, 0, 108, 119, 0, 1, 49, 0, 0>>
\* A fragment of packet id 1 whose index is its total, and one of packet id 2.
FragmentOutOfRange == <<254, 255, 255, 255, 1, 0, 0, 0, 2, 2, 224, 4, 0, 184, 1, 5, 16, 0, 108, 119, 0, 1, 49, 0, 0>>
FragmentOtherId == <<254, 255, 255, 255, 2, 0, 0, 0, 2, 1, 224, 4, 0, 184, 1, 5, 16, 0, 108, 119, 0, 1, 49, 0, 0>>
\* A challenge response, one that is a byte too long, one with the wrong command byte.
Challenge == <<255, 255, 255, 255, 65, 10, 11, 12, 13>>
ChallengeTooLong == <<255, 255, 255, 255, 65, 10, 11, 12, 13, 14>>
ChallengeWrongCommand == <<255, 255, 255, 255, 68, 10, 11, 12, 13>>
\* A datagram whose header is neither -1 nor -2.
BadHeader == <<253, 255, 255, 255, 73>>

Datagrams ==
    { InfoOld, InfoNew, Fragment0, Fragment1, FragmentOutOfRange, FragmentOtherId,
      Challenge, ChallengeTooLong, ChallengeWrongCommand, BadHeader }

\* How many datagrams and gaps the receive queue holds at most.
MaxInbox == 3

(***************************************************************************)
(* Spec: the operations of one SourceServer.                               *)
(***************************************************************************)
NoOutcome == [k |-> "none", v |-> None, msg |-> ""]

\* The context an operation starts with.
Ctx(closed) == [closed |-> closed, inbox |-> inbox, trace |-> <<>>, depth |-> 0, reasm |-> <<>>]

\* What every operation leaves behind: the queue, the logs and its outcome.
Leaves(op, r, v) ==
    /\ lastOp' = op
    /\ inbox' = r.c.inbox
    /\ trace' = r.c.trace
    /\ reasm' = r.c.reasm
    /\ outcome' = [k |-> r.k, v |-> v, msg |-> r.msg]

\* The server's next datagram, or a gap, joins the receive queue.
Arrive ==
    /\ UNCHANGED notSrvVars
    /\ phase \in {"new", "live"}
    /\ lastOp = "none"
    /\ Len(inbox) < MaxInbox
    /\ \E d \in Datagrams \cup {Gap} : inbox' = Append(inbox, d)
    /\ UNCHANGED <<phase, isClosed, closeCalled, lastOp, outcome, trace, reasm>>

\* The caller takes the result of the last operation.
Return ==
    /\ UNCHANGED notSrvVars
    /\ lastOp # "none"
    /\ lastOp' = "none"
    /\ outcome' = NoOutcome
    /\ trace' = <<>>
    /\ reasm' = <<>>
    /\ UNCHANGED <<phase, isClosed, closeCalled, inbox>>

\* isClosed after the try statement of __init__ and of retry: "except SourceError:
\* self.isClosed = True"; any other exception leaves the statement with isClosed
\* as it was set before _connect.
ClosedAfterConnectKeepsOpen(k) == FALSE

ClosedAfterConnect(k) == k = "SourceError"

\* __init__ from "try: self._connect()"; an exception other than SourceError
\* leaves the constructor, and no object exists.
Construct ==
    /\ UNCHANGED notSrvVars
    /\ phase = "new"
    /\ lastOp = "none"
    /\ LET r == GetInfo(Ctx(FALSE))
       IN /\ Leaves("init", r, r.v)
          /\ isClosed' = ClosedAfterConnect(r.k)
          /\ phase' = IF r.k \in {"ok", "SourceError"} THEN "live" ELSE "raised"
    /\ UNCHANGED closeCalled

\* close
Close ==
    /\ UNCHANGED notSrvVars
    /\ phase = "live"
    /\ lastOp = "none"
    /\ isClosed' = TRUE
    /\ closeCalled' = TRUE
    /\ Leaves("close", Ok(Ctx(isClosed), None), None)
    /\ UNCHANGED phase

\* retry
Retry ==
    /\ UNCHANGED notSrvVars
    /\ phase = "live"
    /\ lastOp = "none"
    /\ IF ~isClosed
       THEN /\ Leaves("retry", Ok(Ctx(isClosed), None), None)
            /\ UNCHANGED isClosed
       ELSE LET r == GetInfo(Ctx(FALSE))
            IN /\ Leaves("retry", r, None)
               /\ isClosed' = ClosedAfterConnect(r.k)
    /\ UNCHANGED <<phase, closeCalled>>

\* The property info
Info ==
    /\ UNCHANGED notSrvVars
    /\ phase = "live"
    /\ lastOp = "none"
    /\ LET r == GetInfo(Ctx(isClosed)) IN Leaves("info", r, r.v)
    /\ UNCHANGED <<phase, isClosed, closeCalled>>

\* ping: the value is a duration, of which the model keeps nothing.
Ping ==
    /\ UNCHANGED notSrvVars
    /\ phase = "live"
    /\ lastOp = "none"
    /\ LET r == GetInfo(Ctx(isClosed)) IN Leaves("ping", r, None)
    /\ UNCHANGED <<phase, isClosed, closeCalled>>

QueryPlayers ==
    /\ UNCHANGED notSrvVars
    /\ phase = "live"
    /\ lastOp = "none"
    /\ LET r == GetPlayers(Ctx(isClosed)) IN Leaves("getPlayers", r, r.v)
    /\ UNCHANGED <<phase, isClosed, closeCalled>>

QueryRules ==
    /\ UNCHANGED notSrvVars
    /\ phase = "live"
    /\ lastOp = "none"
    /\ LET r == GetRules(Ctx(isClosed)) IN Leaves("getRules", r, r.v)
    /\ UNCHANGED <<phase, isClosed, closeCalled>>

SrvNext ==
    \/ Arrive
    \/ Return
    \/ Construct
    \/ Close
    \/ Retry
    \/ Info
    \/ Ping
    \/ QueryPlayers
    \/ QueryRules

(***************************************************************************)
(* SplitSpec: the server answers with the fragments of SplitMessage cut    *)
(* in three, packet id 3, each fragment carrying the size field.           *)
(***************************************************************************)
SplitHeader(index) == <<254, 255, 255, 255, 3, 0, 0, 0, 3, index, 224, 4>>
Part0 == SplitHeader(0) \o Slice(SplitMessage, 0, 9)
Part1 == SplitHeader(1) \o Slice(SplitMessage, 9, 18)
Part2 == SplitHeader(2) \o SliceFrom(SplitMessage, 18)
\* A fragment of the same packet whose index is its total.
PartBeyond == SplitHeader(3) \o SliceFrom(SplitMessage, 18)

Parts == { Part0, Part1, Part2 }

SplitDatagrams == Parts \cup { PartBeyond, InfoOld, InfoNew }

\* How many datagrams the receive queue of SplitSpec holds at most.
MaxSplitInbox == 5

\* The server's next datagram joins the receive queue.
SplitArrive ==
    /\ UNCHANGED notSrvVars
    /\ phase = "live"
    /\ lastOp = "none"
    /\ Len(inbox) < MaxSplitInbox
    /\ \E d \in SplitDatagrams : inbox' = Append(inbox, d)
    /\ UNCHANGED <<phase, isClosed, closeCalled, lastOp, outcome, trace, reasm>>

SplitNext ==
    \/ SplitArrive
    \/ Info
    \/ Return

(***************************************************************************)
(* InfoSpec: the server answers the info query with an info response whose *)
(* EDF byte is any of the 256, with the optional fields the byte announces *)
(* behind it, whole or with its last bytes cut off.                        *)
(***************************************************************************)
\* The response up to the version string, without the EDF byte.
InfoFixed == SubSeq(InfoNew, 1, Len(InfoNew) - 1)

\* The optional fields as the server sends them: port 27015, a steam id, SourceTV
\* port 27016 and name "tv", keywords "k", a game id.
TailPort == <<135, 105>>
TailSteamId == <<1, 2, 3, 4, 5, 6, 7, 8>>
TailSourceTVPort == <<136, 105>>
TailSourceTVName == <<116, 118, 0>>
TailKeywords == <<107, 0>>
TailGameId == <<10, 20, 30, 40, 50, 60, 70, 80>>

InfoTail(edf) ==
    (IF BitSet(edf, 128) THEN TailPort ELSE <<>>)
    \o (IF BitSet(edf, 16) THEN TailSteamId ELSE <<>>)
    \o (IF BitSet(edf, 64) THEN TailSourceTVPort \o TailSourceTVName ELSE <<>>)
    \o (IF BitSet(edf, 32) THEN TailKeywords ELSE <<>>)
    \o (IF BitSet(edf, 1) THEN TailGameId ELSE <<>>)

InfoWithEdf(edf) == InfoFixed \o <<edf>> \o InfoTail(edf)

\* How many bytes at most are cut off the end of a response.
MaxCut == 3

InfoInputs ==
    { SubSeq(InfoWithEdf(edf), 1, Len(InfoWithEdf(edf)) - cut) : edf \in 0..255, cut \in 0..MaxCut }

InfoNext ==
    \/ Info
    \/ Return

(***************************************************************************)
(* CompSpec: the server answers the info query with a split response of    *)
(* two fragments whose packet id may be negative (compressed): the joined  *)
(* payload is a 4-byte size, 60 more bytes of header and a bz2 stream.     *)
(***************************************************************************)
\* The packet ids of the fragments, as the four bytes on the wire: -2147483647,
\* -1, 1 and 2147483647.
PacketIds == { <<1, 0, 0, 128>>, <<255, 255, 255, 255>>, <<1, 0, 0, 0>>, <<255, 255, 255, 127>> }

\* The responses the server compresses.
CompMessages == { InfoNew, InfoOld }

\* By how much the declared size may miss the length of the message.
MaxSizeError == 2

\* The sizes the server declares, up to 256 away as well: all four bytes count.
DeclaredSizes ==
    { Len(InfoNew) + d + far * 256 : d \in (0 - MaxSizeError)..MaxSizeError, far \in {0, 1} }

\* The joined payload of a compressed response.
CompPayload(size, message) ==
    <<size % 256, size \div 256, 0, 0>> \o [i \in 1..60 |-> 0] \o <<66, 90, 104>> \o message

\* Where the payload is cut into two fragments.
CutPoints == { 2, 4, 40, 64, 67, 80 }

CompFragment(id, index, payload) == <<254, 255, 255, 255>> \o id \o <<2, index, 224, 4>> \o payload

\* What the server sends: one fragment, the answer to the info request the code
\* sends for sizeAttrPresent, the other fragment.
CompQueue(id, size, message, cut, firstIndex) ==
    LET payload == CompPayload(size, message)
        fragments == << CompFragment(id, 0, SubSeq(payload, 1, cut)),
                        CompFragment(id, 1, SubSeq(payload, cut + 1, Len(payload))) >>
    IN << fragments[firstIndex + 1], InfoNew, fragments[2 - firstIndex] >>

CompQueues ==
    { CompQueue(id, size, message, cut, firstIndex) :
          id \in PacketIds, size \in DeclaredSizes, message \in CompMessages, cut \in CutPoints,
          firstIndex \in {0, 1} }

CompNext ==
    \/ Info
    \/ Return

(***************************************************************************)
(* PlayersSpec: the server answers getPlayers on a connected SourceServer: *)
(* an info response, a challenge response, a players response, and an info *)
(* response for each later read of self.info.                              *)
(***************************************************************************)
\* An info response of protocol 17 for a game; extra holds the bytes of mode,
\* witnesses and duration, which only The Ship sends.
InfoOfGame(game, extra) ==
    <<255, 255, 255, 255, 73, 17, 83, 0, 109, 0, 102, 0>> \o game
    \o <<0, 184, 1, 5, 16, 0, 108, 119, 0, 1>> \o extra \o <<49, 0, 0>>

InfoShip == InfoOfGame(TheShip, <<1, 2, 3>>)
InfoCSGO == InfoOfGame(CSGO, <<>>)

\* A datagram too short to hold a header.
ShortDatagram == <<255, 255, 255>>

PlayersInfos == { InfoShip, InfoCSGO, InfoNew, ShortDatagram }

\* A challenge response under a header that is neither -1 nor -2, and one under
\* the split header.
ChallengeBadHeader == <<253, 255, 255, 255, 65, 10, 11, 12, 13>>
ChallengeSplitHeader == <<254, 255, 255, 255, 65, 10, 11, 12, 13>>

PlayersChallenges == { Challenge, ChallengeBadHeader, ChallengeSplitHeader }

\* How many players a players response of The Ship declares or carries at most.
MaxShipPlayers == 2

\* The head record of player i: index, name ("A", "B", ...), score 10 + i, a duration.
HeadRecord(i) == <<i, 65 + i, 0, 10 + i, 0, 0, 0, 0, 0, 128, 63>>

\* The record of player i in the trailing block: deaths 1 + i, money 100 + i.
ExtraRecord(i) == <<1 + i, 0, 0, 0, 100 + i, 0, 0, 0>>

\* The records of players 0..n-1.
RECURSIVE HeadRecords(_)
HeadRecords(n) == IF n = 0 THEN <<>> ELSE HeadRecords(n - 1) \o HeadRecord(n - 1)

RECURSIVE ExtraRecords(_)
ExtraRecords(n) == IF n = 0 THEN <<>> ELSE ExtraRecords(n - 1) \o ExtraRecord(n - 1)

\* A players response declaring count players, with heads head records and a
\* trailing block of extras records.
ShipResponse(count, heads, extras) ==
    <<255, 255, 255, 255, 68, count>> \o HeadRecords(heads) \o ExtraRecords(extras)

\* The replies of a CS:GO server that hides its players: max_players 16 and an
\* uptime, in a datagram of 9 bytes (three bytes of uptime) and of 10 bytes.
Degenerate9 == <<255, 255, 255, 255, 68, 16, 0, 0, 128>>
Degenerate10 == <<255, 255, 255, 255, 68, 16, 0, 0, 128, 63>>

\* A players response under a header that is neither -1 nor -2.
PlayersBadHeader == <<253, 255, 255, 255, 68, 0>>

PlayersResponses ==
    { ShipResponse(count, heads, extras) : count, heads, extras \in 0..MaxShipPlayers }
    \cup { Degenerate9, Degenerate10, PlayersBadHeader }

PlayersQueues ==
    { <<info, challenge, response, info, info>> :
          info \in PlayersInfos, challenge \in PlayersChallenges, response \in PlayersResponses }

PlayersNext ==
    \/ QueryPlayers
    \/ Return

(***************************************************************************)
(* The receive retry loop, _response.                                      *)
(***************************************************************************)
\* The right-hand side of the comparison is computed in IEEE-754 doubles: for
\* retries = 0..4 it is exactly 3.0, 2.5, 2.0, 1.5, 1.0, and for retries = 5 it is
\* 0.4999999999999999, the double next below 0.5 (1 - 5 / 6 rounds down).
DeadlineRoundsDown(r) == r = 5

\* time.time() - startTime > TIME_UNTIL_RETRY * (1 - retries / (MAX_RETRIES + 1)),
\* both sides multiplied by (MAX_RETRIES + 1); elapsed is in ticks.  No whole
\* number of ticks lies between a deadline that rounds down and its exact value,
\* so against such a deadline ">" accepts the exact value too.
DeadlinePassed(elapsed, r) ==
    IF DeadlineRoundsDown(r)
    THEN elapsed * (MAX_RETRIES + 1) >= TicksPerSecond * TIME_UNTIL_RETRY * ((MAX_RETRIES + 1) - r)
    ELSE elapsed * (MAX_RETRIES + 1) > TicksPerSecond * TIME_UNTIL_RETRY * ((MAX_RETRIES + 1) - r)

\* retries >= self.MAX_RETRIES
RetriesExhaustedOffByOne(r) == r > MAX_RETRIES

RetriesExhausted(r) == r >= MAX_RETRIES

\* The error class _response raises.
TimeoutError(who) == IF who = "source" THEN "SourceError" ELSE "MasterError"

RecvDatagrams == { <<255, 255, 255, 255, 65, 1, 2, 3, 4>>, <<255, 255, 255, 255, 102, 10>> }


\* The clock advances between two polls.
Tick ==
    /\ UNCHANGED notRecvVars
    /\ rstate = "polling"
    /\ ~DeadlinePassed((now - startTime) - MaxOvershoot, retries)
    /\ now' = now + 1
    /\ UNCHANGED <<rwho, retries, startTime, rstate, rpending, rgot, expiries, lastPoll>>

\* The server's datagram reaches the socket.
RecvArrive ==
    /\ UNCHANGED notRecvVars
    /\ rstate = "polling"
    /\ rpending = NoDatagram
    /\ \E d \in RecvDatagrams : rpending' = d
    /\ UNCHANGED <<rwho, retries, startTime, now, rstate, rgot, expiries, lastPoll>>

\* One iteration of the while loop with a datagram on the socket: recv returns it.
PollReturn ==
    /\ UNCHANGED notRecvVars
    /\ rstate = "polling"
    /\ rpending # NoDatagram
    /\ rgot' = rpending
    /\ rpending' = NoDatagram
    /\ rstate' = "returned"
    /\ UNCHANGED <<rwho, retries, startTime, now, expiries, lastPoll>>

\* One iteration of the while loop with nothing on the socket: recv raises
\* socket.error and the deadline is looked at.
PollEmpty ==
    /\ UNCHANGED notRecvVars
    /\ rstate = "polling"
    /\ rpending = NoDatagram
    /\ LET elapsed == now - startTime
           passed == DeadlinePassed(elapsed, retries)
       IN /\ lastPoll' = [k |-> retries, elapsed |-> elapsed, expired |-> passed]
          /\ IF passed
             THEN /\ expiries' = Append(expiries, [k |-> retries, elapsed |-> elapsed])
                  /\ IF RetriesExhausted(retries)
                     THEN /\ rstate' = "raised"
                          /\ UNCHANGED <<retries, startTime>>
                     ELSE /\ retries' = retries + 1
                          /\ startTime' = now
                          /\ UNCHANGED rstate
             ELSE UNCHANGED <<expiries, retries, startTime, rstate>>
    /\ UNCHANGED <<rwho, now, rpending, rgot>>

RecvNext ==
    \/ Tick
    \/ RecvArrive
    \/ PollReturn
    \/ PollEmpty

(***************************************************************************)
(* RequestSpec: _request, call after call on one socket.  A call that is   *)
(* not refused hands its datagram to sendall and runs _response, which is  *)
(* the loop of RecvSpec; the clock counts from the start of the call.  The *)
(* server answers a request once, in time or after the call has given up.  *)
(***************************************************************************)
\* How many calls of _request are made at most.
MaxCalls == 2

\* self.socket.sendall(request), sending the datagram a second time.
SendAllTwice(sent) == sent + 2

\* self.socket.sendall(request): one more datagram sent.
SendAll(sent) == sent + 1

\* "if self.isClosed: raise SourceError(...)", which MasterServer._request lacks.
Refuses(who, closed) == who = "source" /\ RequestRefused([closed |-> closed])

\* _request is called: it raises as closed, or sends the request and enters
\* _response with retries = 0 and startTime = time.time().
CallRequest ==
    /\ UNCHANGED <<masterVars, filterVars>>
    /\ rstate \in {"idle", "returned", "raised"}
    /\ rcalls < MaxCalls
    /\ IF Refuses(rwho, isClosed)
       THEN /\ rstate' = "raised"
            /\ UNCHANGED <<retries, startTime, now, rgot, expiries, lastPoll, rsent>>
       ELSE /\ rsent' = SendAll(rsent)
            /\ rstate' = "polling"
            /\ retries' = 0
            /\ startTime' = 0
            /\ now' = 0
            /\ rgot' = NoDatagram
            /\ expiries' = <<>>
            /\ lastPoll' = [k |-> 0, elapsed |-> 0, expired |-> FALSE]
    /\ rcalls' = IF rwho = "source" /\ isClosed THEN rcalls ELSE rcalls + 1
    /\ UNCHANGED <<rwho, rpending, rpendingFor>>
    /\ UNCHANGED srvVars

\* Between two calls, close() sets self.isClosed and retry() clears it.
SetClosed ==
    /\ UNCHANGED <<recvVars, masterVars, filterVars, requestVars>>
    /\ rwho = "source"
    /\ rstate # "polling"
    /\ isClosed' = ~isClosed
    /\ UNCHANGED <<phase, closeCalled, inbox, lastOp, outcome, trace, reasm>>

\* The server's reply to the last request sent reaches the socket, while the call
\* polls or after it has given up.
ReplyArrive ==
    /\ UNCHANGED <<srvVars, masterVars, filterVars>>
    /\ rsent >= 1
    /\ rpendingFor < rcalls
    /\ rpending = NoDatagram
    /\ \E d \in RecvDatagrams : rpending' = d
    /\ rpendingFor' = rcalls
    /\ UNCHANGED <<rwho, retries, startTime, now, rstate, rgot, expiries, lastPoll, rsent, rcalls>>

RequestNext ==
    \/ CallRequest
    \/ SetClosed
    \/ ReplyArrive
    \/ Tick
    \/ PollReturn
    \/ PollEmpty

(***************************************************************************)
(* MasterSpec: MasterServer.query as a generator.  The caller resumes it   *)
(* with next(); the master answers each request with one of                *)
(* MasterResponses or not at all.                                          *)
(***************************************************************************)
\* str(chars.moveNext())
Str(b) == IF b = None THEN "None" ELSE ToString(b)

\* The byte the j-th moveNext from now returns, j >= 1.
PeekAhead(chars, j) ==
    IF chars.pos + j <= Len(chars.buf) THEN chars.buf[chars.pos + j] ELSE None

\* The stream after n calls of moveNext.
Skip(chars, n) ==
    [chars EXCEPT !.pos = IF @ + n <= Len(chars.buf) THEN @ + n ELSE Len(chars.buf)]

\* _tokeniseIPs, run to its end by list().
RECURSIVE TokeniseIPsLoop(_, _)
TokeniseIPsLoop(chars, acc) ==
    IF PeekNext(chars) = None THEN ScanOk(acc, chars)
    ELSE Then(ScanInt(Skip(chars, 4), 16, FALSE, TRUE), LAMBDA port :
              TokeniseIPsLoop(port.chars,
                  Append(acc, Str(PeekAhead(chars, 1)) \o "." \o Str(PeekAhead(chars, 2)) \o "."
                              \o Str(PeekAhead(chars, 3)) \o "." \o Str(PeekAhead(chars, 4)) \o ":"
                              \o ToString(port.v))))

TokeniseIPs(response) == TokeniseIPsLoop(PeekableStream(response), <<>>)

\* The seed of the first request, which is also the end marker of the master.
Sentinel == "0.0.0.0:0"

\* The request of _getIPs: header, seed and filters, each string NUL-terminated.
MasterRequest(region, seed, filterString) == [header |-> <<49, region>>, seed |-> seed, filters |-> filterString]

\* The arguments of query: all regions, no filter.
Region == 255
FilterString == ""

\* The responses of the master: the 6-byte preamble, then 6-byte records.
Preamble == <<255, 255, 255, 255, 102, 10>>
RecordA == <<1, 2, 3, 4, 105, 135>>
RecordB == <<5, 6, 7, 8, 105, 136>>
RecordZ == <<0, 0, 0, 0, 0, 0>>
MasterResponses ==
    { Preamble \o RecordA \o RecordB,
      Preamble \o RecordB,
      Preamble \o RecordA \o RecordZ,
      Preamble \o RecordZ,
      Preamble,
      Preamble \o RecordA \o <<5, 6, 7, 8, 105>> }

\* How many times the first request may time out.
MaxFirstTimeouts == 2

\* "except MasterError" around the first request.
FirstRequestCatchesNothing(kind) == FALSE

FirstRequestCatches(kind) == kind = "MasterError"

\* The condition of "while ipList[-1] != "0.0.0.0:0" and queriesSent < self.QUERY_CAP".
QueryContinuesPastCap(ips, sent) == ips[Len(ips)] # Sentinel /\ sent <= QUERY_CAP

QueryContinues(ips, sent) == ips[Len(ips)] # Sentinel /\ sent < QUERY_CAP

\* What a yield statement hands to the caller: ipList[:-1].
YieldedBatch(ips) == AllButLast(ips)

\* _getIPs answered by response: the next value of ipList, or the exception raised.
GetIPs(response) == TokeniseIPs(SliceFrom(response, 6))

\* The request sent, logged with the state it was sent in.
Sent(seed) ==
    Append(mRequests, [request |-> MasterRequest(Region, seed, FilterString),
                       n |-> queriesSent, after |-> ipList])

\* The generator raises: it is finished.
MasterRaises(kind) ==
    /\ mpc' = "raised"
    /\ mError' = kind
    /\ UNCHANGED <<ipList, queriesSent, mReceived, mYielded, mLastYield>>

\* A response is tokenised into ipList and the batch is yielded.
MasterYields(ips, sent) ==
    /\ mpc' = "yielded"
    /\ ipList' = ips
    /\ queriesSent' = sent
    /\ mReceived' = mReceived \o ips
    /\ mLastYield' = YieldedBatch(ips)
    /\ mYielded' = mYielded \o YieldedBatch(ips)
    /\ UNCHANGED mError

\* One pass of the loop "while True" around the first request, answered.
FirstAnswered ==
    /\ UNCHANGED notMasterVars
    /\ mpc = "first"
    /\ mRequests' = Sent(Sentinel)
    /\ \E response \in MasterResponses :
          IF GetIPs(response).k = "ok"
          THEN MasterYields(GetIPs(response).v, 1)
          ELSE MasterRaises(GetIPs(response).k)
    /\ UNCHANGED <<mTimeouts, mSlept>>

\* One pass of that loop with _response out of retries: the exception is caught
\* or leaves the generator.
FirstTimedOut ==
    /\ UNCHANGED notMasterVars
    /\ mpc = "first"
    /\ mTimeouts < MaxFirstTimeouts
    /\ mRequests' = Sent(Sentinel)
    /\ mTimeouts' = mTimeouts + 1
    /\ IF FirstRequestCatches("MasterError")
       THEN /\ mpc' = "sleeping"
            /\ UNCHANGED <<ipList, queriesSent, mReceived, mYielded, mLastYield, mError>>
       ELSE MasterRaises("MasterError")
    /\ UNCHANGED mSlept

\* time.sleep(self.RATE_LIMIT) returns and the loop starts over.
Wake ==
    /\ UNCHANGED notMasterVars
    /\ mpc = "sleeping"
    /\ mpc' = "first"
    /\ mSlept' = mSlept + RATE_LIMIT
    /\ UNCHANGED <<ipList, queriesSent, mRequests, mReceived, mYielded, mLastYield, mError, mTimeouts>>

\* next() after a yield, the loop condition true and the request answered.
ResumeAnswered ==
    /\ UNCHANGED notMasterVars
    /\ mpc = "yielded"
    /\ ipList # <<>>
    /\ QueryContinues(ipList, queriesSent)
    /\ mRequests' = Sent(ipList[Len(ipList)])
    /\ \E response \in MasterResponses :
          IF GetIPs(response).k = "ok"
          THEN MasterYields(GetIPs(response).v, queriesSent + 1)
          ELSE MasterRaises(GetIPs(response).k)
    /\ UNCHANGED <<mTimeouts, mSlept>>

\* next() after a yield, the loop condition true and _response out of retries.
ResumeTimedOut ==
    /\ UNCHANGED notMasterVars
    /\ mpc = "yielded"
    /\ ipList # <<>>
    /\ QueryContinues(ipList, queriesSent)
    /\ mRequests' = Sent(ipList[Len(ipList)])
    /\ MasterRaises("MasterError")
    /\ UNCHANGED <<mTimeouts, mSlept>>

\* next() after a yield, the loop condition false: the generator returns.
ResumeDone ==
    /\ UNCHANGED notMasterVars
    /\ mpc = "yielded"
    /\ ipList # <<>>
    /\ ~QueryContinues(ipList, queriesSent)
    /\ mpc' = "done"
    /\ UNCHANGED <<ipList, queriesSent, mRequests, mReceived, mYielded, mLastYield, mError, mTimeouts, mSlept>>

\* next() after the yield of an empty ipList: ipList[-1] is an IndexError.
ResumeEmpty ==
    /\ UNCHANGED notMasterVars
    /\ mpc = "yielded"
    /\ ipList = <<>>
    /\ MasterRaises("IndexError")
    /\ UNCHANGED <<mRequests, mTimeouts, mSlept>>

MasterNext ==
    \/ FirstAnswered
    \/ FirstTimedOut
    \/ Wake
    \/ ResumeAnswered
    \/ ResumeTimedOut
    \/ ResumeDone
    \/ ResumeEmpty

(***************************************************************************)
(* FilterSpec: _validateAndBuildFilters.  A dict is the sequence of its    *)
(* items <<key, value>> in insertion order; a value carries the name of    *)
(* its Python type, t, and what it holds in the field of that type.        *)
(***************************************************************************)
NoValue == [t |-> "NoneType", b |-> FALSE, n |-> 0, s |-> "", strings |-> <<>>, items |-> <<>>]
Bool(b) == [NoValue EXCEPT !.t = "bool", !.b = b]
IntOf(n) == [NoValue EXCEPT !.t = "int", !.n = n]
StrOf(s) == [NoValue EXCEPT !.t = "str", !.s = s]
Tuple(strings) == [NoValue EXCEPT !.t = "tuple", !.strings = strings]
Dict(items) == [NoValue EXCEPT !.t = "dict", !.items = items]

FILTERS ==
    [gamedir |-> "str", map |-> "str", appid |-> "int", napp |-> "int", gametype |-> "tuple",
     gamedata |-> "tuple", gamedataor |-> "tuple", name_match |-> "str", version_match |-> "str",
     gameaddr |-> "str"]

\* Every boolean key with the pair <<"\nor\1\key\1", "\key\1">> under its own name.
BooleanFiltersByKeyName ==
    [key \in {"dedicated", "secure", "linux", "password", "empty", "full", "proxy", "whitelisted",
              "collapse_addr_hash"} |-> <<"\\nor\\1\\" \o key \o "\\1", "\\" \o key \o "\\1">>]

\* The pairs (false, true) of the boolean filters.
BOOLEAN_FILTERS ==
    [dedicated |-> <<"\\nor\\1\\dedicated\\1", "\\dedicated\\1">>,
     secure |-> <<"\\nor\\1\\secure\\1", "\\secure\\1">>,
     linux |-> <<"\\nor\\1\\linux\\1", "\\linux\\1">>,
     password |-> <<"\\password\\0", "\\nor\\1\\password\\0">>,
     empty |-> <<"\\empty\\1", "\\noplayers\\1">>,
     full |-> <<"\\full\\1", "\\nor\\1\\full\\1">>,
     proxy |-> <<"\\nor\\1\\proxy\\1", "\\proxy\\1">>,
     whitelisted |-> <<"\\nor\\1\\white\\1", "\\white\\1">>,
     collapse_addr_hash |-> <<"\\nor\\1\\collapse_addr_hash\\1", "\\collapse_addr_hash\\1">>]

FilterOk(string) == [k |-> "ok", v |-> string, msg |-> ""]
FilterErr(kind, msg) == [k |-> kind, v |-> "", msg |-> msg]
NotBuilt == [k |-> "none", v |-> "", msg |-> ""]

\* int(val) of a bool.
IntOfBool(b) == IF b THEN 1 ELSE 0

\* repr of a tuple of strings.
RECURSIVE ReprItems(_)
ReprItems(strings) ==
    IF strings = <<>> THEN ""
    ELSE "'" \o Head(strings) \o "'"
         \o (IF Len(strings) = 1 THEN "" ELSE ", " \o ReprItems(Tail(strings)))

\* str(val), itself a str.
PyStr(val) ==
    StrOf(IF val.t = "str" THEN val.s
          ELSE IF val.t = "int" THEN ToString(val.n)
          ELSE IF val.t = "tuple"
          THEN "(" \o ReprItems(val.strings) \o (IF Len(val.strings) = 1 THEN "," ELSE "") \o ")"
          ELSE "")

\* "\\%s\\%d" % (key, arg): %d formats a number and raises TypeError for a str.
FormatSegment(key, arg) ==
    IF arg.t = "int"
    THEN FilterOk("\\" \o key \o "\\" \o ToString(arg.n))
    ELSE FilterErr("TypeError", "%d format: a real number is required, not str")

\* The loop "for key, val in filters.items()" from item i on, filterString built so
\* far; a nested dict is built by the recursive call.
RECURSIVE BuildFrom(_, _, _)
BuildFrom(items, i, filterString) ==
    IF i > Len(items) THEN FilterOk(filterString)
    ELSE IF items[i][1] \in {"nor", "nand"}
    THEN IF items[i][2].t # "dict"
         THEN FilterErr("ValueError", "Nor/Nand filter value is not a set of filters")
         ELSE Then(FormatSegment(items[i][1], IntOf(Len(items[i][2].items))), LAMBDA head :
              Then(BuildFrom(items[i][2].items, 1, ""), LAMBDA nested :
                   BuildFrom(items, i + 1, filterString \o head.v \o nested.v)))
    ELSE IF items[i][1] \in DOMAIN BOOLEAN_FILTERS
    THEN IF items[i][2].t # "bool"
         THEN FilterErr("ValueError", "Boolean filter value not a boolean")
         ELSE BuildFrom(items, i + 1,
                        filterString \o BOOLEAN_FILTERS[items[i][1]][IntOfBool(items[i][2].b) + 1])
    ELSE IF items[i][1] \notin DOMAIN FILTERS \/ items[i][2].t # FILTERS[items[i][1]]
    THEN FilterErr("ValueError", "Filter is invalid or has an invalid value")
    ELSE Then(FormatSegment(items[i][1], PyStr(items[i][2])), LAMBDA segment :
              BuildFrom(items, i + 1, filterString \o segment.v))

ValidateAndBuildFilters(items) == BuildFrom(items, 1, "")

\* The items a caller may pass: each boolean key with both values, each other key
\* with a value of its type, items the validation refuses, and nor/nand.
BooleanItems == { <<key, Bool(b)>> : key \in DOMAIN BOOLEAN_FILTERS, b \in BOOLEAN }
TypedItems ==
    { <<"gamedir", StrOf("tf")>>, <<"map", StrOf("cp_dustbowl")>>, <<"appid", IntOf(440)>>,
      <<"napp", IntOf(240)>>, <<"gametype", Tuple(<<"coop", "alltalk">>)>>,
      <<"gamedata", Tuple(<<"a">>)>>, <<"gamedataor", Tuple(<<"a", "b">>)>>,
      <<"name_match", StrOf("*eu*")>>, <<"version_match", StrOf("1.*")>>,
      <<"gameaddr", StrOf("1.2.3.4")>> }
RefusedItems ==
    { <<"appid", StrOf("440")>>, <<"dedicated", IntOf(1)>>, <<"region", StrOf("eu")>>,
      <<"nor", Bool(TRUE)>> }
NestedItems ==
    { <<op, Dict(items)>> : op \in {"nor", "nand"},
                            items \in { <<>>, << <<"secure", Bool(TRUE)>> >>,
                                        << <<"empty", Bool(FALSE)>>, <<"full", Bool(TRUE)>> >> } }
Items == BooleanItems \cup TypedItems \cup RefusedItems \cup NestedItems

\* How many items the dict filters holds at most.
MaxFilters == 2

\* The dicts of at most MaxFilters items: no key twice.
RECURSIVE DictsOf(_)
DictsOf(n) ==
    IF n = 0 THEN { <<>> }
    ELSE DictsOf(n - 1)
         \cup { Append(d, item) : d \in { e \in DictsOf(n - 1) : Len(e) = n - 1 },
                                  item \in Items }

FilterInputs ==
    { d \in DictsOf(MaxFilters) : \A i, j \in DOMAIN d : i # j => d[i][1] # d[j][1] }

\* query evaluates self._validateAndBuildFilters(filters).
BuildFilterString ==
    /\ UNCHANGED notFilterVars
    /\ built = NotBuilt
    /\ rsent = 0
    /\ rcalls = 0
    /\ rpendingFor = 0
    /\ built' = ValidateAndBuildFilters(filters)
    /\ UNCHANGED filters

FilterNext == BuildFilterString

(***************************************************************************)
(* The specifications.  Each starts the objects of the others at rest.     *)
(***************************************************************************)
RecvInit ==
    /\ rwho \in {"source", "master"}
    /\ retries = 0
    /\ startTime = 0
    /\ now = 0
    /\ rstate = "polling"
    /\ rpending = NoDatagram
    /\ rgot = NoDatagram
    /\ expiries = <<>>
    /\ lastPoll = [k |-> 0, elapsed |-> 0, expired |-> FALSE]
    /\ phase = "new"
    /\ isClosed = FALSE
    /\ closeCalled = FALSE
    /\ inbox = <<>>
    /\ lastOp = "none"
    /\ outcome = NoOutcome
    /\ trace = <<>>
    /\ reasm = <<>>
    /\ mpc = "first"
    /\ ipList = <<>>
    /\ queriesSent = 0
    /\ mRequests = <<>>
    /\ mReceived = <<>>
    /\ mYielded = <<>>
    /\ mLastYield = <<>>
    /\ mError = "none"
    /\ mTimeouts = 0
    /\ mSlept = 0
    /\ filters = <<>>
    /\ built = NotBuilt
    /\ rsent = 1
    /\ rcalls = 1
    /\ rpendingFor = 0

RecvSpec == RecvInit /\ [][RecvNext]_vars

\* A SourceServer or MasterServer on which _request has not been called yet.
RequestInit ==
    /\ rwho \in {"source", "master"}
    /\ retries = 0
    /\ startTime = 0
    /\ now = 0
    /\ rstate = "idle"
    /\ rpending = NoDatagram
    /\ rgot = NoDatagram
    /\ expiries = <<>>
    /\ lastPoll = [k |-> 0, elapsed |-> 0, expired |-> FALSE]
    /\ phase = "live"
    /\ isClosed = FALSE
    /\ closeCalled = FALSE
    /\ inbox = <<>>
    /\ lastOp = "none"
    /\ outcome = NoOutcome
    /\ trace = <<>>
    /\ reasm = <<>>
    /\ mpc = "first"
    /\ ipList = <<>>
    /\ queriesSent = 0
    /\ mRequests = <<>>
    /\ mReceived = <<>>
    /\ mYielded = <<>>
    /\ mLastYield = <<>>
    /\ mError = "none"
    /\ mTimeouts = 0
    /\ mSlept = 0
    /\ filters = <<>>
    /\ built = NotBuilt
    /\ rsent = 0
    /\ rcalls = 0
    /\ rpendingFor = 0

RequestSpec == RequestInit /\ [][RequestNext]_vars

\* The state at "try: self._connect()" of __init__: isClosed is False, the socket
\* is connected and nothing has been sent.
Init ==
    /\ rwho = "source"
    /\ retries = 0
    /\ startTime = 0
    /\ now = 0
    /\ rstate = "polling"
    /\ rpending = NoDatagram
    /\ rgot = NoDatagram
    /\ expiries = <<>>
    /\ lastPoll = [k |-> 0, elapsed |-> 0, expired |-> FALSE]
    /\ phase = "new"
    /\ isClosed = FALSE
    /\ closeCalled = FALSE
    /\ inbox = <<>>
    /\ lastOp = "none"
    /\ outcome = NoOutcome
    /\ trace = <<>>
    /\ reasm = <<>>
    /\ mpc = "first"
    /\ ipList = <<>>
    /\ queriesSent = 0
    /\ mRequests = <<>>
    /\ mReceived = <<>>
    /\ mYielded = <<>>
    /\ mLastYield = <<>>
    /\ mError = "none"
    /\ mTimeouts = 0
    /\ mSlept = 0
    /\ filters = <<>>
    /\ built = NotBuilt
    /\ rsent = 0
    /\ rcalls = 0
    /\ rpendingFor = 0

Next == SrvNext

Spec == Init /\ [][Next]_vars

\* A SourceServer whose constructor has returned with the connection open.
SplitInit ==
    /\ rwho = "source"
    /\ retries = 0
    /\ startTime = 0
    /\ now = 0
    /\ rstate = "polling"
    /\ rpending = NoDatagram
    /\ rgot = NoDatagram
    /\ expiries = <<>>
    /\ lastPoll = [k |-> 0, elapsed |-> 0, expired |-> FALSE]
    /\ phase = "live"
    /\ isClosed = FALSE
    /\ closeCalled = FALSE
    /\ inbox = <<>>
    /\ lastOp = "none"
    /\ outcome = NoOutcome
    /\ trace = <<>>
    /\ reasm = <<>>
    /\ mpc = "first"
    /\ ipList = <<>>
    /\ queriesSent = 0
    /\ mRequests = <<>>
    /\ mReceived = <<>>
    /\ mYielded = <<>>
    /\ mLastYield = <<>>
    /\ mError = "none"
    /\ mTimeouts = 0
    /\ mSlept = 0
    /\ filters = <<>>
    /\ built = NotBuilt
    /\ rsent = 0
    /\ rcalls = 0
    /\ rpendingFor = 0

SplitSpec == SplitInit /\ [][SplitNext]_vars

\* A connected SourceServer and the one datagram its server will answer with.
InfoInit ==
    /\ rwho = "source"
    /\ retries = 0
    /\ startTime = 0
    /\ now = 0
    /\ rstate = "polling"
    /\ rpending = NoDatagram
    /\ rgot = NoDatagram
    /\ expiries = <<>>
    /\ lastPoll = [k |-> 0, elapsed |-> 0, expired |-> FALSE]
    /\ phase = "live"
    /\ isClosed = FALSE
    /\ closeCalled = FALSE
    /\ inbox \in { <<d>> : d \in InfoInputs }
    /\ lastOp = "none"
    /\ outcome = NoOutcome
    /\ trace = <<>>
    /\ reasm = <<>>
    /\ mpc = "first"
    /\ ipList = <<>>
    /\ queriesSent = 0
    /\ mRequests = <<>>
    /\ mReceived = <<>>
    /\ mYielded = <<>>
    /\ mLastYield = <<>>
    /\ mError = "none"
    /\ mTimeouts = 0
    /\ mSlept = 0
    /\ filters = <<>>
    /\ built = NotBuilt
    /\ rsent = 0
    /\ rcalls = 0
    /\ rpendingFor = 0

InfoSpec == InfoInit /\ [][InfoNext]_vars

\* A connected SourceServer and the datagrams its server will answer with.
CompInit ==
    /\ rwho = "source"
    /\ retries = 0
    /\ startTime = 0
    /\ now = 0
    /\ rstate = "polling"
    /\ rpending = NoDatagram
    /\ rgot = NoDatagram
    /\ expiries = <<>>
    /\ lastPoll = [k |-> 0, elapsed |-> 0, expired |-> FALSE]
    /\ phase = "live"
    /\ isClosed = FALSE
    /\ closeCalled = FALSE
    /\ inbox \in CompQueues
    /\ lastOp = "none"
    /\ outcome = NoOutcome
    /\ trace = <<>>
    /\ reasm = <<>>
    /\ mpc = "first"
    /\ ipList = <<>>
    /\ queriesSent = 0
    /\ mRequests = <<>>
    /\ mReceived = <<>>
    /\ mYielded = <<>>
    /\ mLastYield = <<>>
    /\ mError = "none"
    /\ mTimeouts = 0
    /\ mSlept = 0
    /\ filters = <<>>
    /\ built = NotBuilt
    /\ rsent = 0
    /\ rcalls = 0
    /\ rpendingFor = 0

CompSpec == CompInit /\ [][CompNext]_vars

\* A connected SourceServer and the datagrams its server will answer with.
PlayersInit ==
    /\ rwho = "source"
    /\ retries = 0
    /\ startTime = 0
    /\ now = 0
    /\ rstate = "polling"
    /\ rpending = NoDatagram
    /\ rgot = NoDatagram
    /\ expiries = <<>>
    /\ lastPoll = [k |-> 0, elapsed |-> 0, expired |-> FALSE]
    /\ phase = "live"
    /\ isClosed = FALSE
    /\ closeCalled = FALSE
    /\ inbox \in PlayersQueues
    /\ lastOp = "none"
    /\ outcome = NoOutcome
    /\ trace = <<>>
    /\ reasm = <<>>
    /\ mpc = "first"
    /\ ipList = <<>>
    /\ queriesSent = 0
    /\ mRequests = <<>>
    /\ mReceived = <<>>
    /\ mYielded = <<>>
    /\ mLastYield = <<>>
    /\ mError = "none"
    /\ mTimeouts = 0
    /\ mSlept = 0
    /\ filters = <<>>
    /\ built = NotBuilt
    /\ rsent = 0
    /\ rcalls = 0
    /\ rpendingFor = 0

PlayersSpec == PlayersInit /\ [][PlayersNext]_vars

MasterSpec == Init /\ [][MasterNext]_vars

\* A MasterServer and the dict filters its query is called with.
FilterInit ==
    /\ rwho = "source"
    /\ retries = 0
    /\ startTime = 0
    /\ now = 0
    /\ rstate = "polling"
    /\ rpending = NoDatagram
    /\ rgot = NoDatagram
    /\ expiries = <<>>
    /\ lastPoll = [k |-> 0, elapsed |-> 0, expired |-> FALSE]
    /\ phase = "new"
    /\ isClosed = FALSE
    /\ closeCalled = FALSE
    /\ inbox = <<>>
    /\ lastOp = "none"
    /\ outcome = NoOutcome
    /\ trace = <<>>
    /\ reasm = <<>>
    /\ mpc = "first"
    /\ ipList = <<>>
    /\ queriesSent = 0
    /\ mRequests = <<>>
    /\ mReceived = <<>>
    /\ mYielded = <<>>
    /\ mLastYield = <<>>
    /\ mError = "none"
    /\ mTimeouts = 0
    /\ mSlept = 0
    /\ filters \in FilterInputs
    /\ built = NotBuilt
    /\ rsent = 0
    /\ rcalls = 0
    /\ rpendingFor = 0

FilterSpec == FilterInit /\ [][FilterNext]_vars

(***************************************************************************)
(* The properties.                                                         *)
(***************************************************************************)
\* The deadlines of the six attempts of _response, in tenths of a second.
Deadlines == <<30, 25, 20, 15, 10, 5>>

\* C1: with nothing arriving, _response raises after exactly MAX_RETRIES + 1 = 6
\* deadline expiries, the attempt with retries = k expiring at the deadline
\* 3.0, 2.5, 2.0, 1.5, 1.0, 0.5 s of its turn (never before it, and a poll that
\* does not expire is never past it); retries never exceeds 5; a datagram that
\* arrives before the sixth expiry is returned, and the call never raises with a
\* datagram waiting.
C1_RetrySchedule ==
    /\ retries <= MAX_RETRIES
    /\ Len(expiries) <= MAX_RETRIES + 1
    /\ \A i \in 1..Len(expiries) :
          /\ expiries[i].k = i - 1
          /\ expiries[i].elapsed * 10 >= TicksPerSecond * Deadlines[i]
    /\ lastPoll.expired => lastPoll.elapsed * 10 >= TicksPerSecond * Deadlines[lastPoll.k + 1]
    /\ ~lastPoll.expired => lastPoll.elapsed * 10 <= TicksPerSecond * Deadlines[lastPoll.k + 1]
    /\ rstate = "polling" => retries = Len(expiries)
    /\ rstate = "raised" =>
          Len(expiries) = MAX_RETRIES + 1 /\ rgot = NoDatagram /\ rpending = NoDatagram
    /\ rstate = "returned" => rgot \in RecvDatagrams /\ Len(expiries) <= MAX_RETRIES

\* The call has raised after its sixth expiry.
C1_Witness == rstate = "raised" /\ Len(expiries) = MAX_RETRIES + 1 /\ retries = MAX_RETRIES

\* The query operations, and the outcome of one refused by _request.
Queries == {"info", "ping", "getPlayers", "getRules"}

RefusedAsClosed(o, tr) ==
    /\ o.k = "SourceError"
    /\ o.msg = "Request attempt made on closed connection"
    /\ tr = <<>>

\* C2 as stated: once close() has been called, every later query is refused as
\* closed and sends nothing, and close() leaves the endpoint closed without raising.
C2_ClosedForGood ==
    /\ (closeCalled /\ lastOp \in Queries) => RefusedAsClosed(outcome, trace)
    /\ lastOp = "close" => isClosed /\ outcome.k = "ok"

\* C2, amended: close() leaves the endpoint closed without raising or sending,
\* whether or not it was closed before; a closed endpoint stays closed until
\* retry() is called; every query on a closed endpoint is refused as closed,
\* sends nothing and leaves it closed.
C2_ClosedUntilRetry ==
    [][ /\ lastOp' = "close" => isClosed' /\ closeCalled' /\ outcome'.k = "ok" /\ trace' = <<>>
        /\ (isClosed /\ ~isClosed') => lastOp' = "retry"
        /\ (isClosed /\ lastOp' \in Queries) => isClosed' /\ RefusedAsClosed(outcome', trace')
      ]_vars

\* getPlayers is refused on an endpoint that close() closed.
C2_Witness ==
    closeCalled /\ isClosed /\ lastOp = "getPlayers" /\ RefusedAsClosed(outcome, trace)

Recvs(tr) == SelectSeq(tr, LAMBDA e : e.ev = "recv")

\* The index and the total a fragment declares.
Index(fragment) == At(fragment, 9)
Total(fragment) == At(fragment, 8)

\* A fragment set with every index 0..total-1 exactly once.
Complete(fragments) ==
    /\ Len(fragments) = Total(fragments[1])
    /\ \A i \in 0..(Len(fragments) - 1) :
          Cardinality({ n \in 1..Len(fragments) : Index(fragments[n]) = i }) = 1

\* The payloads of a complete set in increasing index order, from index i on.
RECURSIVE ConcatByIndex(_, _, _)
ConcatByIndex(fragments, i, headerLen) ==
    IF i >= Len(fragments) THEN <<>>
    ELSE SliceFrom(fragments[CHOOSE n \in 1..Len(fragments) : Index(fragments[n]) = i], headerLen)
         \o ConcatByIndex(fragments, i + 1, headerLen)

\* The info query received a fragment, the info response InfoNew that the size
\* field is decided by, and two more fragments: the three parts in some order.
PartsInSomeOrder ==
    LET r == Recvs(trace)
    IN /\ lastOp = "info"
       /\ Len(r) = 4
       /\ r[2].data = InfoNew
       /\ {r[1].data, r[3].data, r[4].data} = Parts

FragmentsReceived ==
    LET r == Recvs(trace)
    IN <<r[1].data>> \o [n \in 1..(Len(r) - 2) |-> r[n + 2].data]

FragmentsOnly ==
    LET r == Recvs(trace)
    IN /\ lastOp = "info"
       /\ Len(r) >= 2
       /\ r[2].data = InfoNew
       /\ \A n \in 1..Len(FragmentsReceived) : FragmentsReceived[n] \in Parts \cup {PartBeyond}

\* Some fragment received has an index outside 0..total-1 or one already placed.
DuplicateOrOutOfRange(fragments) ==
    \/ \E n \in 1..Len(fragments) : Index(fragments[n]) >= Total(fragments[1])
    \/ \E m, n \in 1..Len(fragments) : m < n /\ Index(fragments[m]) = Index(fragments[n])

\* C5: a fragment with a duplicate or out-of-range index makes the query fail with
\* the library's protocol error (SourceError), and no payload is returned.
C5_BadFragmentIsProtocolError ==
    (FragmentsOnly /\ DuplicateOrOutOfRange(FragmentsReceived)) =>
        outcome.k = "SourceError" /\ reasm = <<>>

\* The info query received part 0, InfoNew, part 0 again and part 1, and ended
\* with a TypeError.
C5_Witness ==
    /\ lastOp = "info"
    /\ FragmentsOnly
    /\ FragmentsReceived = <<Part0, Part0, Part1>>
    /\ outcome.k = "TypeError"

\* C6: between the first fragment and the return of the reassembly (depth > 0)
\* the endpoint sends nothing.
C6_NoSendDuringReassembly ==
    \A i \in 1..Len(trace) : trace[i].ev = "send" => trace[i].depth = 0

\* Right after the first fragment is received, an info request is sent from
\* inside the reassembly.
C6_Witness ==
    /\ lastOp = "info"
    /\ \E i \in 2..Len(trace) :
          /\ trace[i - 1].ev = "recv"
          /\ trace[i - 1].data \in Parts
          /\ trace[i].ev = "send"
          /\ trace[i].data = InfoRequest
          /\ trace[i].depth = 1

\* The positions of the sends of a getPlayers or getRules that start with the
\* operation's request head.
HeadOf(op) == IF op = "getPlayers" THEN PlayersRequestHead ELSE RulesRequestHead
ChallengeRequestOf(op) == IF op = "getPlayers" THEN PlayersChallengeRequest ELSE RulesChallengeRequest

HandshakeSends ==
    { i \in 1..Len(trace) :
        /\ trace[i].ev = "send"
        /\ Len(trace[i].data) >= 5
        /\ SubSeq(trace[i].data, 1, 5) = HeadOf(lastOp) }

ValidChallenge(d) == Len(d) = 9 /\ d[5] = 65

\* C7: in getPlayers and getRules the first request with the operation's head is
\* the challenge request; a second one, the data request, is sent exactly when the
\* datagram received in answer is 9 bytes long with byte 4 = 0x41, directly after
\* it, and is the head followed by bytes 5..8 of that datagram; after any other
\* answer the operation fails and no data request is sent.
C7_ChallengeHandshake ==
    lastOp \in {"getPlayers", "getRules"} =>
        /\ Cardinality(HandshakeSends) <= 2
        /\ \A i \in HandshakeSends :
              IF \A j \in HandshakeSends : i <= j
              THEN /\ trace[i].data = ChallengeRequestOf(lastOp)
                   /\ (i < Len(trace) /\ trace[i + 1].ev = "recv" /\ ValidChallenge(trace[i + 1].data))
                         => (i + 2) \in HandshakeSends
                   /\ (i < Len(trace) /\ ~(trace[i + 1].ev = "recv" /\ ValidChallenge(trace[i + 1].data)))
                         => (Cardinality(HandshakeSends) = 1 /\ outcome.k = "SourceError")
              ELSE /\ (i - 2) \in HandshakeSends
                   /\ trace[i - 1].ev = "recv"
                   /\ ValidChallenge(trace[i - 1].data)
                   /\ trace[i].data = HeadOf(lastOp) \o SubSeq(trace[i - 1].data, 6, 9)

\* getRules sent its data request with the challenge 0A 0B 0C 0D.
C7_Witness ==
    /\ lastOp = "getRules"
    /\ \E i \in 2..Len(trace) :
          /\ trace[i].ev = "send"
          /\ trace[i].data = RulesRequestHead \o <<10, 11, 12, 13>>
          /\ trace[i - 1].data = Challenge

LastOf(s) == s[Len(s)]

\* C8: no more than QUERY_CAP requests are counted; every request after the first
\* answered one is sent with fewer than QUERY_CAP requests counted, after a
\* response whose last record is not 0.0.0.0:0, with that record as its seed, and
\* the count rises from one to the next; the generator returns only when the last
\* record is 0.0.0.0:0 or QUERY_CAP requests are counted.
C8_MasterTermination ==
    /\ queriesSent <= QUERY_CAP
    /\ \A i \in 1..Len(mRequests) :
          IF mRequests[i].n = 0
          THEN mRequests[i].request.seed = Sentinel
          ELSE /\ mRequests[i].n < QUERY_CAP
               /\ mRequests[i].after # <<>>
               /\ mRequests[i].request.seed = LastOf(mRequests[i].after)
               /\ mRequests[i].request.seed # Sentinel
    /\ \A i, j \in 1..Len(mRequests) :
          (i < j /\ mRequests[i].n >= 1) => mRequests[j].n = mRequests[i].n + (j - i)
    /\ mpc = "done" => (LastOf(ipList) = Sentinel \/ queriesSent = QUERY_CAP)

\* The generator returned at the cap, the master never having sent the sentinel.
C8_Witness ==
    mpc = "done" /\ queriesSent = QUERY_CAP /\ LastOf(ipList) # Sentinel /\ Len(mRequests) = QUERY_CAP

\* C9: when the enumeration has returned, the batches yielded hold every record
\* received, in order, but for a terminating sentinel.
C9_YieldsAllButSentinel ==
    mpc = "done" =>
        mYielded = IF LastOf(mReceived) = Sentinel THEN AllButLast(mReceived) ELSE mReceived

\* Two responses, 1.2.3.4:27015 and 5.6.7.8:27016, then 0.0.0.0:0: the generator
\* has returned and 5.6.7.8:27016 was never yielded.
C9_Witness ==
    /\ mpc = "done"
    /\ mReceived = <<"1.2.3.4:27015", "5.6.7.8:27016", "0.0.0.0:0">>
    /\ mYielded = <<"1.2.3.4:27015">>

\* C10: MasterError leaves the generator only once the first request has been
\* answered, and then the request that timed out is the last one sent; every
\* timeout of the first request is followed by a sleep of RATE_LIMIT seconds and
\* the same first request (seed 0.0.0.0:0) again.
C10_FirstTimeoutSwallowed ==
    /\ mError = "MasterError" =>
          /\ queriesSent >= 1
          /\ mpc = "raised"
          /\ LastOf(mRequests).n = queriesSent
          /\ \A i \in 1..(Len(mRequests) - 1) : mRequests[i].n < queriesSent
    /\ mpc = "sleeping" => (queriesSent = 0 /\ mError = "none")
    /\ mSlept = RATE_LIMIT * (mTimeouts - (IF mpc = "sleeping" THEN 1 ELSE 0))
    /\ Len(mRequests) >= mTimeouts
    /\ (mpc = "first") => Len(mRequests) = mTimeouts
    /\ \A i \in 1..Len(mRequests) :
          (i <= mTimeouts + 1) =>
              /\ mRequests[i].n = 0
              /\ mRequests[i].request = MasterRequest(Region, Sentinel, FilterString)

\* The first request timed out twice, was answered, and a later request timed out.
C10_Witness ==
    mTimeouts > 1 /\ mpc = "raised" /\ mError = "MasterError" /\ Len(mRequests) > mTimeouts + 1

(***************************************************************************)
(* The decoders at the end of the buffer (InfoSpec).                       *)
(***************************************************************************)
\* info has run and the datagram d was what it received.
InfoAnswered(d) ==
    /\ lastOp = "info"
    /\ Len(Recvs(trace)) = 1
    /\ Recvs(trace)[1].data = d

\* The keys _tokeniseInfo reads with a bare moveNext.
ByteKeys ==
    {"protocol", "players", "max_players", "bots", "server_type", "environment", "visibility",
     "VAC", "mode", "witnesses", "duration", "EDF"}

\* C11: a read past the end of the response fails with the library's truncation
\* error; an info query that returns holds no field read at the end of the buffer
\* (None), and one that fails on a cut response fails with SourceError.
C11_CursorSafety ==
    lastOp = "info" /\ Recvs(trace) # <<>> =>
        /\ outcome.k = "ok" => \A name \in ByteKeys \cap DOMAIN outcome.v : outcome.v[name] # None
        /\ outcome.k # "ok" => outcome.k = "SourceError"

\* The response cut just before its EDF byte: info returns with EDF = None.
C11_Witness ==
    /\ InfoAnswered(InfoFixed)
    /\ outcome.k = "ok"
    /\ outcome.v["EDF"] = None

\* The optional keys of the decoded dict and the keys an EDF byte announces.
OptionalKeys == {"port", "steam_id", "sourceTV_port", "sourceTV_name", "keywords", "game_id"}

Announced(edf) ==
    (IF BitSet(edf, 128) THEN {"port"} ELSE {})
    \cup (IF BitSet(edf, 16) THEN {"steam_id"} ELSE {})
    \cup (IF BitSet(edf, 64) THEN {"sourceTV_port", "sourceTV_name"} ELSE {})
    \cup (IF BitSet(edf, 32) THEN {"keywords"} ELSE {})
    \cup (IF BitSet(edf, 1) THEN {"game_id"} ELSE {})

\* The values the tail of InfoWithEdf carries.
TailValues ==
    [port |-> 27015, steam_id |-> <<197121, 394500, 2055>>, sourceTV_port |-> 27016,
     sourceTV_name |-> <<116, 118>>, keywords |-> <<107>>, game_id |-> <<1971210, 3945000, 20550>>]

\* C12: for every EDF byte and the tail it announces, info returns a dict whose
\* optional keys are exactly the announced ones, each with the value at its place
\* in the tail (port, steam_id, SourceTV port and name, keywords, game_id in that
\* order), and whose id is the low 24 bits of game_id when bit 0x01 is set and the
\* 16-bit id field otherwise.
C12_EdfSufficiency ==
    \A edf \in 0..255 :
        InfoAnswered(InfoWithEdf(edf)) =>
            /\ outcome.k = "ok"
            /\ outcome.v["EDF"] = edf
            /\ (DOMAIN outcome.v) \cap OptionalKeys = Announced(edf)
            /\ \A name \in Announced(edf) : outcome.v[name] = TailValues[name]
            /\ outcome.v["id"] = IF BitSet(edf, 1) THEN 1971210 ELSE 440

\* Every bit set: all six optional keys are decoded.
C12_Witness ==
    /\ InfoAnswered(InfoWithEdf(241))
    /\ outcome.k = "ok"
    /\ (DOMAIN outcome.v) \cap OptionalKeys = OptionalKeys
    /\ outcome.v["id"] = 1971210

(***************************************************************************)
(* The filter string (FilterSpec).                                         *)
(***************************************************************************)
\* The builder has run on a non-empty dict of boolean filters only.
BuiltFromBooleans ==
    /\ built # NotBuilt
    /\ filters # <<>>
    /\ \A i \in DOMAIN filters :
          /\ filters[i][1] \in {"dedicated", "secure", "linux", "password", "empty", "full", "proxy",
                                "whitelisted", "collapse_addr_hash"}
          /\ filters[i][2].t = "bool"

\* The pair <<string for false, string for true>> of a filter negated with nor.
NegatedByNor(name) == <<"\\nor\\1\\" \o name \o "\\1", "\\" \o name \o "\\1">>

\* What a table of such pairs gives for the items of a dict, in order.
RECURSIVE SegmentsByTable(_, _)
SegmentsByTable(items, table) ==
    IF items = <<>> THEN ""
    ELSE table[Head(items)[1]][IF Head(items)[2].b THEN 2 ELSE 1] \o SegmentsByTable(Tail(items), table)

\* The table as stated: every nor-negated key under its own name, empty and full
\* with the plain string for true.
StatedTable ==
    [dedicated |-> NegatedByNor("dedicated"), secure |-> NegatedByNor("secure"),
     linux |-> NegatedByNor("linux"), proxy |-> NegatedByNor("proxy"),
     whitelisted |-> NegatedByNor("whitelisted"),
     collapse_addr_hash |-> NegatedByNor("collapse_addr_hash"),
     password |-> <<"\\password\\0", "\\nor\\1\\password\\0">>,
     empty |-> <<"\\noplayers\\1", "\\empty\\1">>,
     full |-> <<"\\nor\\1\\full\\1", "\\full\\1">>]

\* The table with whitelisted written "white", and empty and full the other way round.
AmendedTable ==
    [dedicated |-> NegatedByNor("dedicated"), secure |-> NegatedByNor("secure"),
     linux |-> NegatedByNor("linux"), proxy |-> NegatedByNor("proxy"),
     whitelisted |-> NegatedByNor("white"),
     collapse_addr_hash |-> NegatedByNor("collapse_addr_hash"),
     password |-> <<"\\password\\0", "\\nor\\1\\password\\0">>,
     empty |-> <<"\\empty\\1", "\\noplayers\\1">>,
     full |-> <<"\\full\\1", "\\nor\\1\\full\\1">>]

BuiltFromTyped ==
    /\ built # NotBuilt
    /\ filters # <<>>
    /\ \A i \in DOMAIN filters :
          \/ filters[i][1] \in {"gamedir", "map", "name_match", "version_match", "gameaddr"}
             /\ filters[i][2].t = "str"
          \/ filters[i][1] \in {"appid", "napp"} /\ filters[i][2].t = "int"
          \/ filters[i][1] \in {"gametype", "gamedata", "gamedataor"} /\ filters[i][2].t = "tuple"

RECURSIVE CommaJoined(_)
CommaJoined(strings) ==
    IF strings = <<>> THEN ""
    ELSE Head(strings) \o (IF Len(strings) = 1 THEN "" ELSE "," \o CommaJoined(Tail(strings)))

\* The segments \key\value of such a dict.
RECURSIVE TypedSegments(_)
TypedSegments(items) ==
    IF items = <<>> THEN ""
    ELSE "\\" \o Head(items)[1] \o "\\"
         \o (IF Head(items)[2].t = "str" THEN Head(items)[2].s
             ELSE IF Head(items)[2].t = "int" THEN ToString(Head(items)[2].n)
             ELSE CommaJoined(Head(items)[2].strings))
         \o TypedSegments(Tail(items))

\* C14: a dict of recognised non-boolean filters with values of the declared types
\* never makes the builder raise, and serialises to the segments \key\value: the
\* string itself, the decimal integer, the comma-joined strings.
C14_TypedFiltersSerialise ==
    BuiltFromTyped => built = FilterOk(TypedSegments(filters))

\* appid = 440 has made the builder raise TypeError.
C14_Witness ==
    /\ BuiltFromTyped
    /\ Len(filters) = 1
    /\ filters[1][1] = "appid"
    /\ filters[1][2].n = 440
    /\ built.k = "TypeError"

(***************************************************************************)
(* Compressed split responses (CompSpec).                                  *)
(***************************************************************************)
\* info has run and received exactly the datagrams of queue, in order.
InfoReceived(queue) ==
    /\ lastOp = "info"
    /\ Len(Recvs(trace)) = Len(queue)
    /\ \A i \in DOMAIN queue : Recvs(trace)[i].data = queue[i]

SizeMismatch ==
    /\ outcome.k = "SourceError"
    /\ outcome.msg = "Decompressed payload size does not match packet attribute"

\* C15: a split response with a negative packet id is decompressed from byte 64 of
\* the joined payload, and the query fails with the size-mismatch error exactly
\* when the decompressed length differs from the little-endian size in the first
\* four bytes; with a non-negative packet id the joined payload is returned as it
\* is.
C15_CompressedSplit ==
    \A id \in PacketIds, size \in DeclaredSizes, message \in CompMessages, cut \in CutPoints,
       firstIndex \in {0, 1} :
        InfoReceived(CompQueue(id, size, message, cut, firstIndex)) =>
            IF id[4] >= 128
            THEN IF size = Len(message)
                 THEN /\ outcome.k = "ok"
                      /\ outcome.v["protocol"] = message[6]
                      /\ Len(reasm) = 1
                      /\ reasm[1].payload = message
                 ELSE SizeMismatch /\ reasm = <<>>
            ELSE /\ ~SizeMismatch
                 /\ Len(reasm) = 1
                 /\ reasm[1].payload = CompPayload(size, message)

\* A compressed response whose declared size is one more than the message is long.
C15_Witness ==
    /\ InfoReceived(CompQueue(<<255, 255, 255, 255>>, Len(InfoNew) + 1, InfoNew, 40, 1))
    /\ SizeMismatch

(***************************************************************************)
(* getPlayers (PlayersSpec).                                               *)
(***************************************************************************)
\* getPlayers has run and received exactly the datagrams of queue, in order.
PlayersReceived(queue) ==
    /\ lastOp = "getPlayers"
    /\ Len(Recvs(trace)) = Len(queue)
    /\ \A i \in DOMAIN queue : Recvs(trace)[i].data = queue[i]

\* A server running The Ship has answered every request of getPlayers.
ShipAnswered(count, heads, extras) ==
    PlayersReceived(<<InfoShip, Challenge, ShipResponse(count, heads, extras), InfoShip, InfoShip>>)

\* The tuple of player i as the server sent it.
ShipPlayer(i) == <<i, <<65 + i>>, 10 + i, [f32 |-> <<0, 0, 128, 63>>], 1 + i, 100 + i>>

\* C16: for The Ship, getPlayers decodes exactly count head records and takes
\* deaths and money from the trailing block; when the bytes after the count head
\* records are not exactly count * 8, the query fails with SourceError and returns
\* no player.
C16_ShipTrailingBlock ==
    \A count, heads, extras \in 0..MaxShipPlayers :
        ShipAnswered(count, heads, extras) =>
            IF heads = count /\ extras = count
            THEN /\ outcome.k = "ok"
                 /\ outcome.v.count = count
                 /\ outcome.v.players = [i \in 1..count |-> ShipPlayer(i - 1)]
            ELSE outcome.k = "SourceError"

\* One head record and no trailing block: the player is returned with deaths and
\* money read from the bytes of its own score and duration.
C16_Witness ==
    /\ ShipAnswered(1, 1, 0)
    /\ outcome.k = "ok"
    /\ outcome.v.players = << <<0, <<65>>, 10, [f32 |-> <<0, 0, 128, 63>>], 10, 1065353216>> >>

\* A CS:GO server has answered getPlayers with the 9-byte reply.
DegenerateAnswered == PlayersReceived(<<InfoCSGO, Challenge, Degenerate9, InfoCSGO>>)

\* C17: when the game is Counter-Strike: Global Offensive and the players response
\* is 9 bytes long with command byte 0x44, getPlayers returns max_players, the
\* byte after the command byte, and the uptime decoded from the bytes that follow.
C17_DegenerateReply ==
    DegenerateAnswered =>
        /\ outcome.k = "ok"
        /\ outcome.v.max_players = 16
        /\ outcome.v.uptime.f32[1] = 0

\* The 9-byte reply leaves _scanFloat three bytes: getPlayers raises TypeError.
C17_Witness ==
    /\ DegenerateAnswered
    /\ outcome.k = "TypeError"

\* The first four bytes of a datagram are neither -1 nor -2, or are not there.
Unclassifiable(datagram) ==
    \/ Len(datagram) < 4
    \/ SubSeq(datagram, 1, 4) \notin { <<255, 255, 255, 255>>, <<254, 255, 255, 255>> }

\* C19: every datagram a query receives is classified by its first four bytes, and
\* a query that receives a datagram whose header is neither -1 nor -2 fails with
\* the invalid-header error; no such datagram is decoded as a payload.
C19_FramerClassification ==
    /\ lastOp = "getPlayers"
    /\ \E i \in DOMAIN Recvs(trace) : Unclassifiable(Recvs(trace)[i].data)
    => /\ outcome.k = "SourceError"
       /\ outcome.msg = "Invalid packet header"

\* A challenge response under the header -3 is accepted, its challenge is sent
\* back and the query returns the player list.
C19_Witness ==
    /\ PlayersReceived(<<InfoNew, ChallengeBadHeader, ShipResponse(0, 0, 0), InfoNew, InfoNew>>)
    /\ outcome.k = "ok"
    /\ \E i \in DOMAIN trace :
          /\ trace[i].ev = "send"
          /\ trace[i].data = PlayersRequestHead \o SliceFrom(ChallengeBadHeader, 5)

(***************************************************************************)
(* Info before everything else (Spec).                                     *)
(***************************************************************************)
\* The datagram is an unsplit info response that _getInfo decodes.
DecodesAsInfo(datagram) ==
    /\ Len(datagram) >= 23
    /\ SubSeq(datagram, 1, 5) = <<255, 255, 255, 255, 73>>
    /\ TokeniseInfo(SliceFrom(datagram, 5)).k = "ok"

\* The requests A2S_PLAYER and A2S_RULES, challenge requests included.
PlayersOrRulesRequest(datagram) == Len(datagram) >= 5 /\ datagram[5] \in {85, 86}

\* C18: the first datagram every operation sends, the constructor's included, is
\* the 25-byte A2S_INFO request, and every A2S_PLAYER or A2S_RULES request is sent
\* after an info response has been received and decoded in the same operation.
C18_InfoFirst ==
    /\ phase = "new" => trace = <<>>
    /\ trace # <<>> => trace[1].ev = "send" /\ trace[1].data = InfoRequest /\ Len(InfoRequest) = 25
    /\ \A i \in DOMAIN trace :
          trace[i].ev = "send" /\ PlayersOrRulesRequest(trace[i].data) =>
              \E j \in 1..(i - 1) : trace[j].ev = "recv" /\ DecodesAsInfo(trace[j].data)

\* getRules has sent its request with the challenge, after the info request.
C18_Witness ==
    /\ lastOp = "getRules"
    /\ trace # <<>>
    /\ trace[1].data = InfoRequest
    /\ \E i \in DOMAIN trace :
          trace[i].ev = "send" /\ trace[i].data = RulesRequestHead \o ChallengeOf(Challenge)

(***************************************************************************)
(* The receives of a reassembly (SplitSpec).                               *)
(***************************************************************************)
\* The datagrams received while _processSplitPacket is running, in order.
ReceivedInReassembly == SelectSeq(Recvs(trace), LAMBDA e : e.depth >= 1)

\* The datagram is split and carries the packet id of the fragment first.
FragmentOfSamePacket(first, datagram) ==
    /\ Len(datagram) >= 8
    /\ SubSeq(datagram, 1, 4) = <<254, 255, 255, 255>>
    /\ SubSeq(datagram, 5, 8) = SubSeq(first, 5, 8)

\* C20: after the first fragment of a split response with total = N, a query that
\* succeeds has made exactly N - 1 further receives, and a further datagram that is
\* not split or carries another packet id aborts the query with SourceError, no
\* payload being reassembled.
C20_FurtherReceives ==
    lastOp = "info" /\ Recvs(trace) # <<>> /\ Recvs(trace)[1].data \in Parts =>
        /\ outcome.k = "ok" => Len(ReceivedInReassembly) = Total(Recvs(trace)[1].data) - 1
        /\ (\E n \in DOMAIN ReceivedInReassembly :
               ~FragmentOfSamePacket(Recvs(trace)[1].data, ReceivedInReassembly[n].data))
           => outcome.k = "SourceError" /\ reasm = <<>>

\* After part 1 of three the query receives an unsplit info response and the two
\* other parts, three datagrams, and succeeds.
C20_Witness ==
    /\ lastOp = "info"
    /\ outcome.k = "ok"
    /\ Len(Recvs(trace)) = 4
    /\ Recvs(trace)[1].data = Part1
    /\ [n \in 1..3 |-> ReceivedInReassembly[n].data] = <<InfoNew, Part2, Part0>>
    /\ Len(reasm) = 1

(***************************************************************************)
(* Requests and their replies (RequestSpec).                               *)
(***************************************************************************)
\* C21: the datagrams sent on the socket are as many as the calls of _request made
\* while the endpoint was open, in every state of every call: a deadline expiry
\* restarts the timer and sends nothing, and a call on a closed endpoint sends
\* nothing.
C21_SentOncePerRequest ==
    /\ rsent = rcalls
    /\ rstate = "polling" => rsent >= 1 /\ retries = Len(expiries)

\* The second call has used up all its retries: two datagrams sent in all.
C21_Witness ==
    /\ rcalls = 2
    /\ rsent = 2
    /\ rstate = "raised"
    /\ retries = MAX_RETRIES
    /\ Len(expiries) = MAX_RETRIES + 1

\* C22: the datagram a call of _request returns is the server's reply to the
\* request that call sent, never the reply to an earlier request.
C22_ReplyCorrelation ==
    rstate = "returned" => rpendingFor = rcalls

\* The first call gave up, its reply arrived afterwards, and the second call has
\* returned that reply.
C22_Witness ==
    /\ rstate = "returned"
    /\ rcalls = 2
    /\ rsent = 2
    /\ rpendingFor = 1
    /\ rgot \in RecvDatagrams

====
